---------------------------- MODULE Spec2Model ----------------------------
(***************************************************************************)
(* Street-light telemetry: feature engineering, model training, the        *)
(* inference path and the ingestion that calls it.                         *)
(*                                                                         *)
(* Data frames are records [cols, index, rows]: cols is the ordered list   *)
(* of column names, index the row labels, rows a sequence of functions     *)
(* from column name to cell.  A cell is <<>> (null: None / NaN / NaT) or   *)
(* <<v>>.  Real-valued results are kept exact: a ratio is [num, den], a    *)
(* timestamp is [repr, t] with t in whole hours and repr the storage form  *)
(* ("str" as read from CSV, "datetime" once parsed).                       *)
(***************************************************************************)
EXTENDS Integers, Sequences, FiniteSets, TLC

VARIABLES
    feIn,        \* frame held by the caller: rows sliced from a bulk table
    feOdd,       \* whether feIn already holds its irregular row
    feTarget,    \* target_col of the last create_features call
    feOut,       \* what that call returned (or raised) on feIn as a slice
    feOutWindow, \* the same call on the same rows assembled as a fresh window
    fePc         \* "build" | "called"

feVars == <<feIn, feOdd, feTarget, feOut, feOutWindow, fePc>>

VARIABLES
    modelDir,          \* the model directory: file name -> null or <<content>>
    failure_model,     \* MLInference.failure_model (null: None)
    anomaly_model,     \* MLInference.anomaly_model
    failure_features,  \* MLInference.failure_features: the loaded FeatureSchema
    anomaly_features,  \* MLInference.anomaly_features
    infHist,           \* stored readings of the device, oldest first
    infOdd,            \* whether infHist already holds its irregular row
    infArgs,           \* the arguments of the last predict call, and what the
                       \* fitted models answered when they were invoked
    infX,              \* the matrix each model was invoked with (null: not invoked)
    infResult,         \* what predict returned (or raised)
    infPc              \* "idle" | "done"

infVars == <<modelDir, failure_model, anomaly_model, failure_features, anomaly_features,
             infHist, infOdd, infArgs, infX, infResult, infPc>>

VARIABLES
    db,        \* the committed tables: sensor_data, alerts, ml_predictions
    session,   \* objects added to the request's session and not yet committed
    clock,     \* utcnow, in hours
    ingCount,  \* ingestion requests received so far
    ingPc,     \* where create_sensor_data stands
    ingData,   \* the payload of the request in hand
    ingRow,    \* the SensorData object of the request (null before its commit)
    ingHist,   \* historical_data in generate_predictions
    ingPreds,  \* what predict returned to generate_predictions
    ingRet,    \* what create_sensor_data returned (or raised)
    ingPath    \* the steps the request has taken, in order

ingVars == <<db, session, clock, ingCount, ingPc, ingData, ingRow, ingHist, ingPreds,
             ingRet, ingPath>>

VARIABLES
    colTable,  \* the sensor_data table the collector reads
    colArgs,   \* the arguments of the last collect_device_data call
    colOut,    \* the frame it returned
    colPc      \* "idle" | "called"

colVars == <<colTable, colArgs, colOut, colPc>>

VARIABLES
    trRun,        \* training runs started so far
    trPc,         \* where the run in hand stands ("idle": none in hand)
    trKind,       \* "failure" | "anomaly": which function runs
    trData,       \* the file at data_path: null (no bytes) or <<table>>
    trFit,        \* feature_cols and the size of X, once computed
    trRet,        \* what the run returned (or raised)
    trSteps,      \* the steps the run has taken, in order
    trDirBefore,  \* the model directory as the run found it
    trWrittenBy   \* file name -> the run that wrote it (0: none)

trVars == <<trRun, trPc, trKind, trData, trFit, trRet, trSteps, trDirBefore, trWrittenBy>>

VARIABLES
    gpPc,      \* invocation -> where its generate_predictions stands
    gpSensor,  \* invocation -> its sensor_data argument
    gpSeen,    \* invocation -> how many readings were committed when it queried
    gpHist,    \* invocation -> its local historical_data
    gpFrame,   \* invocation -> the frame its predict gave to create_features
    gpPreds    \* invocation -> what its predict returned

gpVars == <<gpPc, gpSensor, gpSeen, gpHist, gpFrame, gpPreds>>

VARIABLES
    stWindow,  \* FeatureEngineer.window_size
    stSeries,  \* a frame sorted by time, as create_features hands it on
    stOut,     \* what the method applied to stSeries returned
    stPc       \* "build", or the method applied: "rolling" | "lag" | "target" |
               \* "anomaly"

stVars == <<stWindow, stSeries, stOut, stPc>>

VARIABLES
    soIn,   \* a frame whose rows are in ascending order of timestamp
    soOut,  \* the frame after lines 42-43 of create_features (null: not run)
    soPc    \* "build" | "sorted"

soVars == <<soIn, soOut, soPc>>

VARIABLES
    liIn,       \* a frame with the light columns of some of the lights
    liOut,      \* what _add_light_features makes of it
    liPc        \* "build" | "called"

liVars == <<liIn, liOut, liPc>>

VARIABLES
    alAlerts,   \* the committed rows of the alerts table
    alPc,       \* per worker: "idle" | "loop"
    alLights,   \* per worker: the faulted lights of its reading not yet looked at
    alPending,  \* per worker: the alerts its session holds uncommitted
    alCount     \* ingestions begun so far

alVars == <<alAlerts, alPc, alLights, alPending, alCount>>

vars == <<feVars, infVars, ingVars, colVars, trVars, gpVars, stVars, soVars, liVars, alVars>>

\* the fields of an MLInference instance
mlVars == <<failure_model, anomaly_model, failure_features, anomaly_features>>

\* what the actions of one part leave alone: the variables of the others
NotFE == <<infVars, ingVars, colVars, trVars, gpVars, stVars, soVars, liVars, alVars>>
NotInf == <<feVars, ingVars, colVars, trVars, gpVars, stVars, soVars, liVars, alVars>>
NotIng == <<feVars, infHist, infOdd, infArgs, infX, infResult, infPc, colVars, trVars,
            gpVars, stVars, soVars, liVars, alVars>>
NotCol == <<feVars, infVars, ingVars, trVars, gpVars, stVars, soVars, liVars, alVars>>
NotTrain == <<feVars, mlVars, infHist, infOdd, infArgs, infX, infResult, infPc, ingVars,
              colVars, gpVars, stVars, soVars, liVars, alVars>>
NotGp == <<feVars, modelDir, mlVars, infHist, infOdd, infArgs, infX, infResult, infPc,
           session, clock, ingCount, ingPc, ingData, ingRow, ingHist, ingPreds, ingRet,
           ingPath, colVars, trVars, stVars, soVars, liVars, alVars>>
NotSt == <<feVars, infVars, ingVars, colVars, trVars, gpVars, soVars, liVars, alVars>>
NotSo == <<feVars, infVars, ingVars, colVars, trVars, gpVars, stVars, liVars, alVars>>

NotLi == <<feVars, infVars, ingVars, colVars, trVars, gpVars, stVars, soVars, alVars>>

NotAl == <<feVars, infVars, ingVars, colVars, trVars, gpVars, stVars, soVars, liVars>>

-----------------------------------------------------------------------------
(* Bounds of the model *)

MaxRows == 8
MaxOffset == 1
MaxHist == 7
MaxRequests == 1
MaxClock == 3
MaxTable == 2
MaxMin == 3
MaxRuns == 2
MaxCalls == 2
MaxSeries == 7
MaxSort == 17
MaxLightRows == 2
MaxWorkers == 2
MaxIngests == 3

(* Program constants *)

window_size == 10
NumLights == 4
TailRows == 10
DefaultDays == 30

lags == <<1, 3, 6>>

-----------------------------------------------------------------------------
(* Cells and exceptions *)

Null == <<>>

Val(v) == <<v>>

IsNull(c) == c = <<>>

Get(c) == c[1]

Ok(v) == [exc |-> "none", val |-> <<v>>]

Raise(e) == [exc |-> e, val |-> <<>>]

IsOk(r) == r.exc = "none"

Value(r) == r.val[1]

Range(s) == {s[i] : i \in DOMAIN s}

RECURSIVE SumSeq(_)
SumSeq(s) == IF s = <<>> THEN 0 ELSE Head(s) + SumSeq(Tail(s))

SetMin(S) == CHOOSE x \in S : \A y \in S : x <= y

SetMax(S) == CHOOSE x \in S : \A y \in S : x >= y

-----------------------------------------------------------------------------
(* pandas frame primitives *)

EmptyFrame == [cols |-> <<>>, index |-> <<>>, rows |-> <<>>]

NRows(df) == Len(df.rows)

HasCol(df, c) == c \in Range(df.cols)

\* DataFrame.empty: any axis of length 0
IsEmpty(df) == Len(df.rows) = 0 \/ Len(df.cols) = 0

Col(df, c) == [i \in 1..NRows(df) |-> df.rows[i][c]]

\* x bound to the value of e once, then F of it
Strict(e, F(_)) == CHOOSE y \in {F(x) : x \in {v \in {e} : v = v}} : TRUE

\* df[c] = <cell(df, i) for each row i>: an existing column keeps its place,
\* a new one goes last
SetCol(df, c, cell(_, _)) ==
    Strict(df, LAMBDA d :
        [cols  |-> IF HasCol(d, c) THEN d.cols ELSE Append(d.cols, c),
         index |-> d.index,
         rows  |-> [i \in 1..NRows(d) |->
                      [k \in DOMAIN d.rows[i] \cup {c} |->
                          IF k = c THEN cell(d, i) ELSE d.rows[i][k]]]])

\* the members of a set of positions, ascending
RECURSIVE Ascending(_)
Ascending(S) ==
    IF S = {} THEN <<>>
    ELSE LET m == SetMin(S) IN <<m>> \o Ascending(S \ {m})

TakeRows(df, pos) ==
    Strict(pos, LAMBDA p :
        [cols  |-> df.cols,
         index |-> [j \in 1..Len(p) |-> df.index[p[j]]],
         rows  |-> [j \in 1..Len(p) |-> df.rows[p[j]]]])

\* a sort that keeps the labels the rows came with
reset_index_kept(df) == df

\* reset_index(drop=True)
reset_index(df) ==
    Strict(df, LAMBDA d :
        [cols |-> d.cols, index |-> [i \in 1..NRows(d) |-> i - 1], rows |-> d.rows])

\* DataFrame.dropna(): drops every row holding a null in ANY column
RowHasNull(r) == \E c \in DOMAIN r : IsNull(r[c])

dropna(df) ==
    Strict(df, LAMBDA d :
        TakeRows(d, Ascending({i \in 1..NRows(d) : ~RowHasNull(d.rows[i])})))

\* DataFrame.tail(n)
tail(df, n) ==
    Strict(df, LAMBDA d :
        TakeRows(d, [j \in 1..(IF NRows(d) > n THEN n ELSE NRows(d)) |->
                        (IF NRows(d) > n THEN NRows(d) - n ELSE 0) + j]))

\* sort_values(by): ascending, nulls last, ties keep their order (the
\* insertion sort numpy applies to the short frames modelled here)
SortBefore(a, b) ==
    /\ ~IsNull(a)
    /\ (IsNull(b) \/ Get(a).t < Get(b).t)

\* position p put into the sorted positions, after every row not after it
RECURSIVE InsertPos(_, _, _, _)
InsertPos(d, by, sorted, p) ==
    Strict(sorted, LAMBDA s :
        IF s = <<>> THEN <<p>>
        ELSE IF SortBefore(d.rows[p][by], d.rows[Head(s)][by])
             THEN <<p>> \o s
             ELSE <<Head(s)>> \o InsertPos(d, by, Tail(s), p))

RECURSIVE SortPos(_, _, _)
SortPos(d, by, n) ==
    IF n = 0 THEN <<>> ELSE InsertPos(d, by, SortPos(d, by, n - 1), n)

sort_values(df, by) ==
    Strict(df, LAMBDA d :
        IF ~HasCol(d, by) THEN Raise("KeyError")
        ELSE Ok(TakeRows(d, SortPos(d, by, NRows(d)))))

\* rows a and b carry the same sort key
SameKey(a, b) == (IsNull(a) /\ IsNull(b)) \/ (~IsNull(a) /\ ~IsNull(b) /\ Get(a).t = Get(b).t)

\* the orders of the sorted positions s that differ in the order of rows
\* with the same key only
RECURSIVE TieOrders(_, _, _)
TieOrders(d, by, s) ==
    IF s = <<>> THEN {<<>>}
    ELSE UNION {{<<s[j]>> \o rest :
                    rest \in TieOrders(d, by, SelectSeq(s, LAMBDA p : p # s[j]))} :
                j \in {k \in DOMAIN s : SameKey(d.rows[s[k]][by], d.rows[s[1]][by])}}

\* the insertion sort keeps ties in place
StableOrders(d, by, s) == {s}

\* sort_values(by) sorts with kind='quicksort', which is not stable: numpy
\* sorts up to 16 rows by insertion, keeping ties in place, and partitions
\* longer frames, which leaves rows of equal key in an order that depends
\* on the build
QuicksortOrders(d, by, s) ==
    IF Len(s) <= 16 THEN StableOrders(d, by, s) ELSE TieOrders(d, by, s)

\* the frames sort_values(by) may return
SortOutcomes(df, by) ==
    IF ~HasCol(df, by) THEN {Raise("KeyError")}
    ELSE {Ok(TakeRows(df, p)) : p \in QuicksortOrders(df, by, SortPos(df, by, NRows(df)))}

-----------------------------------------------------------------------------
(* FeatureEngineer *)

Hour(c) == IF IsNull(c) THEN Null ELSE Val(Get(c).t % 24)

DayOfWeek(c) == IF IsNull(c) THEN Null ELSE Val((Get(c).t \div 24) % 7)

\* (x >= 5).astype(int): a comparison with NaN is False
IsWeekend(d) == IF ~IsNull(d) /\ Get(d) >= 5 THEN Val(1) ELSE Val(0)

IsNight(h) == IF ~IsNull(h) /\ (Get(h) >= 20 \/ Get(h) <= 6) THEN Val(1) ELSE Val(0)

Squared(c) == IF IsNull(c) THEN Null ELSE Val(Get(c) * Get(c))

Log1p(c) == IF IsNull(c) THEN Null ELSE Val([fn |-> "log1p", x |-> Get(c)])

\* pd.to_datetime on one cell
to_datetime(c) == IF IsNull(c) THEN Null ELSE Val([repr |-> "datetime", t |-> Get(c).t])

_add_basic_features(df) ==
    Strict(df, LAMBDA d0 :
        LET d1 == IF HasCol(d0, "timestamp")
                  THEN LET a == SetCol(d0, "hour", LAMBDA d, i : Hour(d.rows[i]["timestamp"]))
                           b == SetCol(a, "day_of_week",
                                       LAMBDA d, i : DayOfWeek(d.rows[i]["timestamp"]))
                           c == SetCol(b, "is_weekend",
                                       LAMBDA d, i : IsWeekend(d.rows[i]["day_of_week"]))
                       IN  SetCol(c, "is_night", LAMBDA d, i : IsNight(d.rows[i]["hour"]))
                  ELSE d0
        IN  Strict(d1, LAMBDA d2 :
                IF HasCol(d2, "ambient_light")
                THEN LET e == SetCol(d2, "ambient_light_squared",
                                     LAMBDA d, i : Squared(d.rows[i]["ambient_light"]))
                     IN  SetCol(e, "ambient_light_log",
                                LAMBDA d, i : Log1p(d.rows[i]["ambient_light"]))
                ELSE d2))

\* the timestamps of a frame that are not NaT
Times(d) ==
    {Get(d.rows[j]["timestamp"]).t : j \in {k \in 1..NRows(d) : ~IsNull(d.rows[k]["timestamp"])}}

_add_temporal_features(df) ==
    Strict(df, LAMBDA d0 :
        IF ~HasCol(d0, "timestamp") THEN d0
        ELSE LET a == SetCol(d0, "timestamp", LAMBDA d, i : to_datetime(d.rows[i]["timestamp"]))
             IN  SetCol(a, "time_since_start",
                        LAMBDA d, i :
                            IF IsNull(d.rows[i]["timestamp"]) THEN Null
                            ELSE Val(Get(d.rows[i]["timestamp"]).t - SetMin(Times(d)))))

\* the non-null values of vals at positions lo..hi (a bag, as a sequence)
RECURSIVE Window(_, _, _)
Window(vals, lo, hi) ==
    IF lo > hi THEN <<>>
    ELSE IF IsNull(vals[lo]) THEN Window(vals, lo + 1, hi)
         ELSE <<Get(vals[lo])>> \o Window(vals, lo + 1, hi)

SumSq(w) == SumSeq([k \in 1..Len(w) |-> w[k] * w[k]])

\* mean of a window; null when it holds no sample (min_periods = 1)
Mean(w) == IF Len(w) < 1 THEN Null ELSE Val([num |-> SumSeq(w), den |-> Len(w)])

\* sample standard deviation (ddof = 1), kept as its variance n*Sxx - Sx^2 over
\* n*(n-1); NaN for fewer than two samples
Std(w) ==
    IF Len(w) < 2 THEN Null
    ELSE Val([var_num |-> Len(w) * SumSq(w) - SumSeq(w) * SumSeq(w),
              var_den |-> Len(w) * (Len(w) - 1)])

Min(w) == IF Len(w) < 1 THEN Null ELSE Val(SetMin(Range(w)))

Max(w) == IF Len(w) < 1 THEN Null ELSE Val(SetMax(Range(w)))

\* a window that grows from the first row on and never slides
Expanding(vals, i, W) == Window(vals, 1, i)

\* Series.rolling(window, min_periods=1): rows max(1, i-W+1)..i
Rolling(vals, i, W) == Window(vals, IF i - W + 1 > 1 THEN i - W + 1 ELSE 1, i)

\* a shift the other way round
ShiftAhead(vals, i, k) == IF i + k >= 1 /\ i + k <= Len(vals) THEN vals[i + k] ELSE Null

\* Series.shift(k): the value k rows earlier (k < 0: later), null off the frame
Shift(vals, i, k) == IF i - k >= 1 /\ i - k <= Len(vals) THEN vals[i - k] ELSE Null

\* Series.diff()
Diff(vals, i) ==
    IF IsNull(vals[i]) \/ IsNull(Shift(vals, i, 1)) THEN Null
    ELSE Val(Get(vals[i]) - Get(Shift(vals, i, 1)))

\* forward fill: the last non-null value at or before row i
RECURSIVE Ffill(_, _)
Ffill(vals, i) ==
    IF i < 1 THEN Null
    ELSE IF ~IsNull(vals[i]) THEN vals[i] ELSE Ffill(vals, i - 1)

\* Series.pct_change(): filled / filled.shift(1) - 1; 0/0 is NaN, x/0 is inf
PctChange(vals, i) ==
    LET a == Ffill(vals, i)
        b == Ffill(vals, i - 1)
    IN  IF IsNull(a) \/ IsNull(b) THEN Null
        ELSE IF Get(b) = 0 /\ Get(a) = 0 THEN Null
        ELSE Val([num |-> Get(a) - Get(b), den |-> Get(b)])

numeric_cols == <<"ambient_light", "active_lights_count", "faulty_lights_count">>

\* the columns added for one numeric column by an engineer whose window_size
\* is W
RollingOne(df, col, W) ==
    LET a == SetCol(df, col \o "_rolling_mean",
                    LAMBDA d, i : Mean(Rolling(Col(d, col), i, W)))
        b == SetCol(a, col \o "_rolling_std",
                    LAMBDA d, i : Std(Rolling(Col(d, col), i, W)))
        c == SetCol(b, col \o "_rolling_min",
                    LAMBDA d, i : Min(Rolling(Col(d, col), i, W)))
        e == SetCol(c, col \o "_rolling_max",
                    LAMBDA d, i : Max(Rolling(Col(d, col), i, W)))
        f == SetCol(e, col \o "_diff", LAMBDA d, i : Diff(Col(d, col), i))
    IN  SetCol(f, col \o "_pct_change", LAMBDA d, i : PctChange(Col(d, col), i))

RECURSIVE RollingAll(_, _, _)
RollingAll(df, cs, W) ==
    Strict(df, LAMBDA d :
        IF cs = <<>> THEN d
        ELSE RollingAll(IF HasCol(d, Head(cs)) THEN RollingOne(d, Head(cs), W) ELSE d,
                        Tail(cs), W))

\* _add_rolling_features of FeatureEngineer(window_size=W)
rolling_features(df, W) == RollingAll(df, numeric_cols, W)

\* _add_rolling_features of the default engineer, the one every caller builds
_add_rolling_features(df) == rolling_features(df, window_size)

LightName(i, field) == "light_" \o ToString(i) \o "_" \o field

light_cols == [i \in 1..NumLights |-> LightName(i, "ldr")]

light_fault_cols == [i \in 1..NumLights |-> LightName(i, "fault")]

light_state_cols == [i \in 1..NumLights |-> LightName(i, "state")]

\* [col for col in cs if col in df.columns]
Available(df, cs) == SelectSeq(cs, LAMBDA c : HasCol(df, c))

\* the cells of one row across the columns cs, a null cell taken as 1
AcrossFilled(r, cs) ==
    [k \in 1..Len(cs) |-> IF IsNull(r[cs[k]]) THEN 1 ELSE Get(r[cs[k]])]

\* the non-null cells of one row across the columns cs (axis=1, skipna)
RECURSIVE Across(_, _)
Across(r, cs) ==
    IF cs = <<>> THEN <<>>
    ELSE IF IsNull(r[Head(cs)]) THEN Across(r, Tail(cs))
         ELSE <<Get(r[Head(cs)])>> \o Across(r, Tail(cs))

_add_light_features(df) ==
    Strict(df, LAMBDA d0 :
        LET al == Available(d0, light_cols)
            af == Available(d0, light_fault_cols)
            as == Available(d0, light_state_cols)
            d1 == IF al # <<>>
                  THEN LET a == SetCol(d0, "mean_light_ldr", LAMBDA d, i : Mean(Across(d.rows[i], al)))
                           b == SetCol(a, "std_light_ldr", LAMBDA d, i : Std(Across(d.rows[i], al)))
                           c == SetCol(b, "min_light_ldr", LAMBDA d, i : Min(Across(d.rows[i], al)))
                       IN  SetCol(c, "max_light_ldr", LAMBDA d, i : Max(Across(d.rows[i], al)))
                  ELSE d0
            d2 == IF af # <<>>
                  THEN LET a == SetCol(d1, "total_faults",
                                       LAMBDA d, i : Val(SumSeq(Across(d.rows[i], af))))
                       IN  SetCol(a, "fault_rate",
                                  LAMBDA d, i : Val([num |-> Get(d.rows[i]["total_faults"]),
                                                     den |-> Len(af)]))
                  ELSE d1
        IN  IF as # <<>>
            THEN LET a == SetCol(d2, "total_active",
                                 LAMBDA d, i : Val(SumSeq(Across(d.rows[i], as))))
                 IN  SetCol(a, "active_rate",
                            LAMBDA d, i : Val([num |-> Get(d.rows[i]["total_active"]),
                                               den |-> Len(as)]))
            ELSE d2)

RECURSIVE LagOne(_, _, _)
LagOne(df, col, ls) ==
    IF ls = <<>> THEN df
    ELSE LagOne(SetCol(df, col \o "_lag_" \o ToString(Head(ls)),
                       LAMBDA d, i : Shift(Col(d, col), i, Head(ls))),
                col, Tail(ls))

RECURSIVE LagAll(_, _)
LagAll(df, cs) ==
    Strict(df, LAMBDA d :
        IF cs = <<>> THEN d
        ELSE LagAll(IF HasCol(d, Head(cs)) THEN LagOne(d, Head(cs), lags) ELSE d, Tail(cs)))

_add_lag_features(df) == LagAll(df, numeric_cols)

\* x >= 0 on a cell
NotNegative(c) == ~IsNull(c) /\ Get(c) >= 0

\* x > 0 on a cell: False for NaN
Positive(c) == ~IsNull(c) /\ Get(c) > 0

\* |x - mean| >= 2 * std
FarOrAtBound(x, w) ==
    /\ Len(w) >= 2
    /\ (Len(w) * x - SumSeq(w)) * (Len(w) * x - SumSeq(w)) * (Len(w) - 1)
          >= 4 * Len(w) * (Len(w) * SumSq(w) - SumSeq(w) * SumSeq(w))

\* |x - mean| > 2 * std over the non-null samples w, squared and cleared of
\* denominators; False when std is NaN (fewer than two samples)
FarFromMean(x, w) ==
    /\ Len(w) >= 2
    /\ (Len(w) * x - SumSeq(w)) * (Len(w) * x - SumSeq(w)) * (Len(w) - 1)
          > 4 * Len(w) * (Len(w) * SumSq(w) - SumSeq(w) * SumSeq(w))

_create_target(df, target_type) ==
    Strict(df, LAMBDA d0 :
        IF target_type = "failure"
        THEN IF HasCol(d0, "faulty_lights_count")
             THEN SetCol(d0, "target_failure",
                         LAMBDA d, i :
                             IF \/ Positive(Shift(Col(d, "faulty_lights_count"), i, -6))
                                \/ Positive(Shift(Col(d, "faulty_lights_count"), i, -3))
                             THEN Val(1) ELSE Val(0))
             ELSE d0
        ELSE IF target_type = "anomaly"
        THEN IF HasCol(d0, "ambient_light")
             THEN SetCol(d0, "target_anomaly",
                         LAMBDA d, i :
                             IF /\ ~IsNull(d.rows[i]["ambient_light"])
                                /\ FarFromMean(Get(d.rows[i]["ambient_light"]),
                                               Window(Col(d, "ambient_light"), 1, NRows(d)))
                             THEN Val(1) ELSE Val(0))
             ELSE d0
        ELSE d0)

\* the frame create_features holds just before it prunes: sorted, labelled
\* anew, with every engineered column
Engineered(d, target_col) ==
    LET d0 == reset_index(Value(sort_values(d, "timestamp")))
        d1 == _add_basic_features(d0)
        d2 == _add_temporal_features(d1)
        d3 == _add_rolling_features(d2)
        d4 == _add_light_features(d3)
        d5 == _add_lag_features(d4)
    IN  IF target_col # "none" THEN _create_target(d5, target_col) ELSE d5

\* create_features(df, target_col); target_col "none" stands for None
create_features(df, target_col) ==
    Strict(df, LAMBDA d :
        IF IsEmpty(d) THEN Ok(d)
        ELSE IF ~IsOk(sort_values(d, "timestamp")) THEN sort_values(d, "timestamp")
        ELSE Ok(dropna(Engineered(d, target_col))))

exclude_cols ==
    {"id", "device_id", "timestamp", "created_at", "gps_latitude", "gps_longitude",
     "gps_valid", "lights_data", "target_failure", "target_anomaly", "time_string",
     "received_at"}

StartsWithTarget(c) == Len(c) >= 7 /\ SubSeq(c, 1, 7) = "target_"

\* every column, metadata and targets included
all_columns(df) == df.cols

get_feature_columns(df) ==
    SelectSeq(df.cols, LAMBDA c : c \notin exclude_cols /\ ~StartsWithTarget(c))

-----------------------------------------------------------------------------
(* Wide rows as HistoryCollector writes them to the training table *)

LightFields == {"ldr", "ldr_raw", "ir", "state", "fault"}

LightColSeq ==
    [k \in 1..(NumLights * 5) |->
        LightName(((k - 1) \div 5) + 1,
                  <<"ldr", "ldr_raw", "ir", "state", "fault">>[((k - 1) % 5) + 1])]

query_cols ==
    <<"id", "device_id", "timestamp", "ambient_light", "ambient_light_raw",
      "gps_latitude", "gps_longitude", "gps_valid", "lights_data", "is_dark",
      "active_lights_count", "faulty_lights_count", "created_at">>

WideCols == query_cols \o LightColSeq

RowKinds == {"plain", "faulty", "null_gps", "absent_light", "early"}

\* the i-th row of a table: a reading taken at hour i-1 (kind "early": at hour
\* 0, out of order), no faulty light (kind "faulty": one), a GPS fix (kind
\* "null_gps": none), and lights 1..4 reporting (kind "absent_light": 1..3)
WideRow(i, kind) ==
    LET t == IF kind = "early" THEN 0 ELSE i - 1
        base == [c \in Range(query_cols) |->
                   CASE c = "id" -> Val(i)
                     [] c = "device_id" -> Val("dev1")
                     [] c = "timestamp" -> Val([repr |-> "str", t |-> t])
                     [] c = "ambient_light" -> Val(10 + i)
                     [] c = "ambient_light_raw" -> Val(100 + i)
                     [] c = "gps_latitude" -> IF kind = "null_gps" THEN Null ELSE Val(18)
                     [] c = "gps_longitude" -> IF kind = "null_gps" THEN Null ELSE Val(73)
                     [] c = "gps_valid" -> Val(kind # "null_gps")
                     [] c = "lights_data" -> Val("json")
                     [] c = "is_dark" -> Val(FALSE)
                     [] c = "active_lights_count" -> Val(2)
                     [] c = "faulty_lights_count" -> Val(IF kind = "faulty" THEN 1 ELSE 0)
                     [] c = "created_at" -> Val([repr |-> "str", t |-> t])]
        absent(c) == kind = "absent_light" /\ c \in {LightName(NumLights, f) : f \in LightFields}
        light(c) ==
            IF absent(c) THEN Null
            ELSE IF c \in {LightName(k, "state") : k \in 1..NumLights} THEN Val(1)
            ELSE IF c \in {LightName(k, "ldr") : k \in 1..NumLights} THEN Val(5)
            ELSE IF c \in {LightName(k, "ldr_raw") : k \in 1..NumLights} THEN Val(50)
            ELSE IF c = LightName(1, "fault") THEN Val(IF kind = "faulty" THEN 1 ELSE 0)
            ELSE Val(0)
    IN  [c \in Range(WideCols) |-> IF c \in DOMAIN base THEN base[c] ELSE light(c)]

AppendRow(df, r) ==
    [cols  |-> df.cols,
     index |-> Append(df.index, Len(df.index)),
     rows  |-> Append(df.rows, r)]

\* the same rows in the same order, carrying the labels they have as rows
\* off.. of a larger table
AsSlice(df, off) ==
    [cols |-> df.cols, index |-> [i \in 1..NRows(df) |-> off + i - 1], rows |-> df.rows]

-----------------------------------------------------------------------------
(* The steps of create_features that look along the time axis, each applied *)
(* to a frame already sorted by time                                        *)

series_cols ==
    <<"timestamp", "ambient_light", "active_lights_count", "faulty_lights_count">>

SeriesKinds == {"plain", "faulty"}

\* the i-th reading, taken at hour i-1: ambient light 10*i and no faulty
\* light, or (kind "faulty") ambient light 5 and one light faulty
SeriesRow(i, kind) ==
    [c \in Range(series_cols) |->
        CASE c = "timestamp" -> Val([repr |-> "datetime", t |-> i - 1])
          [] c = "ambient_light" -> Val(IF kind = "faulty" THEN 5 ELSE 10 * i)
          [] c = "active_lights_count" -> Val(IF kind = "faulty" THEN 1 ELSE 2)
          [] c = "faulty_lights_count" -> Val(IF kind = "faulty" THEN 1 ELSE 0)]

\* the window sizes an engineer is built with: a short one and the default
Windows == {3, window_size}

StQuiet ==
    /\ stWindow = window_size
    /\ stSeries = [cols |-> series_cols, index |-> <<>>, rows |-> <<>>]
    /\ stOut = Null
    /\ stPc = "build"

StStart ==
    /\ stWindow \in Windows
    /\ stSeries = [cols |-> series_cols, index |-> <<>>, rows |-> <<>>]
    /\ stOut = Null
    /\ stPc = "build"

\* one more reading, an hour after the last
StAddRow ==
    /\ stPc = "build"
    /\ NRows(stSeries) < MaxSeries
    /\ \E kind \in SeriesKinds :
          stSeries' = AppendRow(stSeries, SeriesRow(NRows(stSeries) + 1, kind))
    /\ UNCHANGED <<stWindow, stOut, stPc, NotSt>>

\* create_features, line 51
StRolling ==
    /\ stPc = "build"
    /\ NRows(stSeries) > 0
    /\ stOut' = Val(rolling_features(stSeries, stWindow))
    /\ stPc' = "rolling"
    /\ UNCHANGED <<stWindow, stSeries, NotSt>>

\* create_features, line 57
StLag ==
    /\ stPc = "build"
    /\ NRows(stSeries) > 0
    /\ stOut' = Val(_add_lag_features(stSeries))
    /\ stPc' = "lag"
    /\ UNCHANGED <<stWindow, stSeries, NotSt>>

\* create_features, lines 60-61, for target_col = 'failure'
StTarget ==
    /\ stPc = "build"
    /\ NRows(stSeries) > 0
    /\ stOut' = Val(_create_target(stSeries, "failure"))
    /\ stPc' = "target"
    /\ UNCHANGED <<stWindow, stSeries, NotSt>>

\* create_features, lines 60-61, for target_col = 'anomaly'
StAnomaly ==
    /\ stPc = "build"
    /\ NRows(stSeries) > 0
    /\ stOut' = Val(_create_target(stSeries, "anomaly"))
    /\ stPc' = "anomaly"
    /\ UNCHANGED <<stWindow, stSeries, NotSt>>

StNext ==
    \/ StAddRow
    \/ StRolling
    \/ StLag
    \/ StTarget
    \/ StAnomaly

-----------------------------------------------------------------------------
(* Lines 42-43 of create_features on a frame already in ascending order of  *)
(* timestamp, at most one pair of its rows sharing a timestamp              *)

sort_cols == <<"timestamp", "ambient_light">>

\* the i-th row: its ambient light tells it from every other row
SortRow(i, t) ==
    [c \in Range(sort_cols) |->
        IF c = "timestamp" THEN Val([repr |-> "datetime", t |-> t]) ELSE Val(i)]

TimeOf(df, i) == Get(df.rows[i]["timestamp"]).t

HasTie(df) == \E i \in 1..(NRows(df) - 1) : TimeOf(df, i) = TimeOf(df, i + 1)

SoQuiet ==
    /\ soIn = [cols |-> sort_cols, index |-> <<>>, rows |-> <<>>]
    /\ soOut = Null
    /\ soPc = "build"

\* one more row, an hour after the last one or (once) at the same time
SoAddRow ==
    /\ soPc = "build"
    /\ NRows(soIn) < MaxSort
    /\ \E t \in IF NRows(soIn) = 0 THEN {0}
                 ELSE {TimeOf(soIn, NRows(soIn)) + 1} \cup
                      (IF HasTie(soIn) THEN {} ELSE {TimeOf(soIn, NRows(soIn))}) :
          soIn' = AppendRow(soIn, SortRow(NRows(soIn) + 1, t))
    /\ UNCHANGED <<soOut, soPc, NotSo>>

\* df.sort_values('timestamp').copy(); df.reset_index(drop=True)
SoSort ==
    /\ soPc = "build"
    /\ NRows(soIn) > 0
    /\ \E sorted \in SortOutcomes(soIn, "timestamp") :
          soOut' = Val(reset_index(Value(sorted)))
    /\ soPc' = "sorted"
    /\ UNCHANGED <<soIn, NotSo>>

SoNext ==
    \/ SoAddRow
    \/ SoSort

-----------------------------------------------------------------------------
(* _add_light_features on frames that carry the columns of some of the      *)
(* lights only                                                              *)

\* the columns of a frame that has the ldr, state and fault columns of the
\* lights in present
LightFrameCols(present) ==
    <<"timestamp">> \o
    SelectSeq(LightColSeq,
              LAMBDA c : \E k \in present, f \in {"ldr", "state", "fault"} :
                             c = LightName(k, f))

\* the lights a row reports as faulted (and off), and the lights it has no
\* values for
LightPatterns ==
    {[faulted |-> F, absent |-> A] :
        F \in {{}, {1}, {2, 3}, 1..NumLights}, A \in {{}, {NumLights}}}

LightRow(i, present, pat) ==
    [c \in Range(LightFrameCols(present)) |->
        IF c = "timestamp" THEN Val([repr |-> "datetime", t |-> i - 1])
        ELSE LET k == CHOOSE n \in present : \E f \in LightFields : c = LightName(n, f)
             IN  IF k \in pat.absent THEN Null
                 ELSE IF c = LightName(k, "ldr") THEN Val(5 * k)
                 ELSE IF c = LightName(k, "fault")
                      THEN Val(IF k \in pat.faulted THEN 1 ELSE 0)
                 ELSE Val(IF k \in pat.faulted THEN 0 ELSE 1)]

\* the lights whose columns a frame has
LightsOf(df) == {k \in 1..NumLights : HasCol(df, LightName(k, "fault"))}

LiQuiet ==
    /\ liIn = [cols |-> LightFrameCols({}), index |-> <<>>, rows |-> <<>>]
    /\ liOut = Null
    /\ liPc = "build"

LiStart ==
    /\ \E present \in SUBSET (1..NumLights) :
          liIn = [cols |-> LightFrameCols(present), index |-> <<>>, rows |-> <<>>]
    /\ liOut = Null
    /\ liPc = "build"

LiAddRow ==
    /\ liPc = "build"
    /\ NRows(liIn) < MaxLightRows
    /\ \E pat \in LightPatterns :
          liIn' = AppendRow(liIn, LightRow(NRows(liIn) + 1, LightsOf(liIn), pat))
    /\ UNCHANGED <<liOut, liPc, NotLi>>

\* line 54 of create_features
LiCall ==
    /\ liPc = "build"
    /\ liOut' = Val(_add_light_features(liIn))
    /\ liPc' = "called"
    /\ UNCHANGED <<liIn, NotLi>>

LiNext == LiAddRow \/ LiCall

-----------------------------------------------------------------------------
(* Specification of feature engineering: a caller builds a table row by    *)
(* row and calls create_features on it.                                    *)

Targets == {"none", "failure", "anomaly"}

NoResult == Raise("not called")

FEStart ==
    /\ feIn = [cols |-> WideCols, index |-> <<>>, rows |-> <<>>]
    /\ feOdd = FALSE
    /\ feTarget = "none"
    /\ feOut = NoResult
    /\ feOutWindow = NoResult
    /\ fePc = "build"

FEQuiet == FEStart

\* the caller reads one more row into its table; a table holds at most one
\* row that is not plain
FEAddRow ==
    /\ fePc = "build"
    /\ NRows(feIn) < MaxRows
    /\ \E kind \in RowKinds :
          /\ kind # "plain" => ~feOdd
          /\ feIn' = AppendRow(feIn, WideRow(NRows(feIn) + 1, kind))
          /\ feOdd' = (feOdd \/ kind # "plain")
    /\ UNCHANGED <<feTarget, feOut, feOutWindow, fePc, NotFE>>

\* create_features(df, target_col), on the table as assembled (labels 0..n-1)
\* and on the same rows sliced from a larger table; the caller's frame is
\* left as it was (the code works on a sorted copy)
FECall ==
    /\ fePc = "build"
    /\ \E target \in Targets :
          /\ feTarget' = target
          /\ feOutWindow' = create_features(feIn, target)
          /\ feOut' = create_features(AsSlice(feIn, MaxOffset), target)
    /\ fePc' = "called"
    /\ UNCHANGED <<feIn, feOdd, NotFE>>

FENext == FEAddRow \/ FECall

-----------------------------------------------------------------------------
(* Model artifacts and the model directory *)

ModelFiles ==
    {"failure_predictor.pkl", "failure_predictor_features.pkl",
     "anomaly_detector.pkl", "anomaly_detector_features.pkl"}

EmptyDir == [f \in ModelFiles |-> Null]

\* the columns of the readings table the service reads back as history
history_cols ==
    <<"timestamp", "ambient_light", "ambient_light_raw", "active_lights_count",
      "faulty_lights_count", "is_dark">>

\* the i-th stored reading of a device: taken at hour i-1, with no faulty
\* light (kind "faulty": one)
HistRow(i, kind) ==
    [c \in Range(history_cols) |->
        CASE c = "timestamp" ->
                Val([repr |-> "datetime", t |-> i - 1])
          [] c = "ambient_light" -> Val(10 + i)
          [] c = "ambient_light_raw" -> Val(100 + i)
          [] c = "active_lights_count" -> Val(2)
          [] c = "faulty_lights_count" -> Val(IF kind = "faulty" THEN 1 ELSE 0)
          [] c = "is_dark" -> Val(FALSE)]

HistKinds == {"plain", "faulty"}

NoHistory == [cols |-> history_cols, index |-> <<>>, rows |-> <<>>]

\* a fitted model: the training run that made it, the number of columns it
\* was fitted on, and (classifier) the classes it knows
Artifact(run, schema) == [run |-> run, n_features |-> Len(schema), classes |-> <<0, 1>>]

\* a classifier fitted on samples that were all labelled 1 (kind "oneclass")
OneClassArtifact(schema) == [run |-> 1, n_features |-> Len(schema), classes |-> <<1>>]

\* the table a training run read: with the columns of the stored readings
\* only, or ("mismatch") with HistoryCollector's wide columns
DirKinds == {"absent", "ok", "mismatch", "noschema"}

TrainedOn(kind) ==
    IF kind = "mismatch"
    THEN AppendRow([cols |-> WideCols, index |-> <<>>, rows |-> <<>>], WideRow(1, "plain"))
    ELSE AppendRow(NoHistory, HistRow(1, "plain"))

\* the FeatureSchema that run stored
SchemaOf(kind) == get_feature_columns(Engineered(TrainedOn(kind), "none"))

\* the two files of one model name, as a training run (or none) left them
FilesOf(kind) ==
    Strict(SchemaOf(kind), LAMBDA schema :
        [model    |-> IF kind = "absent" THEN Null
                      ELSE IF kind = "oneclass" THEN Val(OneClassArtifact(schema))
                      ELSE Val(Artifact(1, schema)),
         features |-> IF kind \in {"ok", "mismatch", "oneclass"} THEN Val(schema) ELSE Null])

DirOf(fk, ak) ==
    Strict([k \in {fk, ak} |-> FilesOf(k)], LAMBDA files :
        [f \in ModelFiles |->
            CASE f = "failure_predictor.pkl" -> files[fk].model
              [] f = "failure_predictor_features.pkl" -> files[fk].features
              [] f = "anomaly_detector.pkl" -> files[ak].model
              [] f = "anomaly_detector_features.pkl" -> files[ak].features])

-----------------------------------------------------------------------------
(* MLInference *)

\* _load_models: a schema is read only when its model file exists
LoadedModel(dir, name) == dir[name \o ".pkl"]

LoadedFeatures(dir, name) ==
    IF IsNull(dir[name \o ".pkl"]) THEN Null ELSE dir[name \o "_features.pkl"]

sensor_keys ==
    <<"ambient_light", "ambient_light_raw", "active_lights_count",
      "faulty_lights_count", "is_dark">>

\* sensor_dict as create_sensor_data builds it: no timestamp key
SensorDict(faulty) ==
    [c \in Range(sensor_keys) |->
        CASE c = "ambient_light" -> Val(30)
          [] c = "ambient_light_raw" -> Val(130)
          [] c = "active_lights_count" -> Val(2)
          [] c = "faulty_lights_count" -> Val(faulty)
          [] c = "is_dark" -> Val(FALSE)]

SensorDicts == {SensorDict(0), SensorDict(1)}

\* pd.DataFrame([sensor_data])
FrameOfDict(sd) == [cols |-> sensor_keys, index |-> <<0>>, rows |-> <<sd>>]

\* pd.concat([a, b], ignore_index=True): the union of the columns, a's
\* first; cells a frame has no column for are NaN
Widen(r, cols) == [c \in Range(cols) |-> IF c \in DOMAIN r THEN r[c] ELSE Null]

concat(a, b) ==
    Strict(<<a, b, a.cols \o SelectSeq(b.cols, LAMBDA c : ~HasCol(a, c))>>, LAMBDA p :
        [cols  |-> p[3],
         index |-> [i \in 1..(NRows(p[1]) + NRows(p[2])) |-> i - 1],
         rows  |-> [i \in 1..(NRows(p[1]) + NRows(p[2])) |->
                      IF i <= NRows(p[1]) THEN Widen(p[1].rows[i], p[3])
                      ELSE Widen(p[2].rows[i - NRows(p[1])], p[3])]])

\* the frame predict_failure / detect_anomaly hand to create_features;
\* historical_data is null (None) or <<frame>>
InferenceFrame(sensor_data, historical_data) ==
    Strict(historical_data, LAMBDA h :
        IF ~IsNull(h) /\ ~IsEmpty(Get(h))
        THEN concat(tail(Get(h), TailRows), FrameOfDict(sensor_data))
        ELSE FrameOfDict(sensor_data))

\* a selection that passes over the names the frame lacks
SelectColsPresent(df, features) ==
    IF IsNull(features) THEN Raise("KeyError")
    ELSE LET names == SelectSeq(Get(features), LAMBDA c : HasCol(df, c))
         IN  Ok([cols  |-> names,
                 index |-> df.index,
                 rows  |-> [i \in 1..NRows(df) |-> [c \in Range(names) |-> df.rows[i][c]]]])

\* df[features]: KeyError when features is None or names a column the frame
\* lacks; else the named columns in the order of features
SelectCols(df, features) ==
    IF IsNull(features) THEN Raise("KeyError")
    ELSE IF \E c \in Range(Get(features)) : ~HasCol(df, c) THEN Raise("KeyError")
    ELSE Ok([cols  |-> Get(features),
             index |-> df.index,
             rows  |-> [i \in 1..NRows(df) |->
                          [c \in Range(Get(features)) |-> df.rows[i][c]]]])

\* fillna(0)
fillna0(df) ==
    Strict(df, LAMBDA d :
        [cols  |-> d.cols,
         index |-> d.index,
         rows  |-> [i \in 1..NRows(d) |->
                      [c \in DOMAIN d.rows[i] |->
                          IF IsNull(d.rows[i][c]) THEN Val(0) ELSE d.rows[i][c]]]])

\* .values: the rows as vectors in column order
Values(df) ==
    Strict(df, LAMBDA d :
        [i \in 1..NRows(d) |-> [j \in 1..Len(d.cols) |-> Get(d.rows[i][d.cols[j]])]])

\* X = df[features].fillna(0).iloc[-1:].values
ModelInput(df, features) ==
    Strict(SelectCols(df, features), LAMBDA sel :
        IF ~IsOk(sel) THEN sel
        ELSE Ok(Values(tail(fillna0(Value(sel)), 1))))

\* what the engineered frame of a call gives a model with this schema
InputFor(sensor_data, historical_data, features) ==
    Strict(create_features(InferenceFrame(sensor_data, historical_data), "none"),
           LAMBDA cf : IF ~IsOk(cf) THEN cf ELSE ModelInput(Value(cf), features))

\* the fitted model's own check of X: at least one sample, and as many
\* columns as it was fitted on
Accepts(model, X) == Len(X) >= 1 /\ Len(X[1]) = model.n_features

\* what a fitted model may answer: an exception, or its output
NoAnswer == [raises |-> FALSE, proba |-> <<>>, prediction |-> 0, score |-> 0]

FailureAnswers(model) ==
    {[raises |-> TRUE, proba |-> <<>>, prediction |-> 0, score |-> 0]} \cup
    {[raises |-> FALSE, proba |-> p, prediction |-> 0, score |-> 0] :
        p \in IF Len(model.classes) > 1 THEN {<<90, 10>>, <<20, 80>>} ELSE {<<100>>}}

AnomalyAnswers ==
    {[raises |-> TRUE, proba |-> <<>>, prediction |-> 0, score |-> 0],
     [raises |-> FALSE, proba |-> <<>>, prediction |-> 1, score |-> -40],
     [raises |-> FALSE, proba |-> <<>>, prediction |-> -1, score |-> -60]}

\* np.argmax: the first position holding the maximum
ArgMax(p) == SetMin({i \in DOMAIN p : \A j \in DOMAIN p : p[i] >= p[j]})

\* the body of predict_failure's try block
predict_failure_try(sensor_data, historical_data, answer) ==
    Strict(InputFor(sensor_data, historical_data, failure_features), LAMBDA x :
        IF ~IsOk(x) THEN x
        ELSE IF ~Accepts(Get(failure_model), Value(x)) \/ answer.raises
        THEN Raise("ValueError")
        ELSE Ok([prediction |-> Get(failure_model).classes[ArgMax(answer.proba)],
                 probability |-> answer.proba[ArgMax(answer.proba)],
                 failure_probability |->
                     IF Len(answer.proba) > 1 THEN answer.proba[2] ELSE 0,
                 timestamp |-> "utcnow"]))

\* predict_failure with the exception of its try block let through
predict_failure_uncaught(sensor_data, historical_data, answer) ==
    IF IsNull(failure_model) THEN Ok([error |-> "Model not loaded"])
    ELSE predict_failure_try(sensor_data, historical_data, answer)

predict_failure(sensor_data, historical_data, answer) ==
    IF IsNull(failure_model) THEN Ok([error |-> "Model not loaded"])
    ELSE Strict(predict_failure_try(sensor_data, historical_data, answer), LAMBDA r :
            IF IsOk(r) THEN r ELSE Ok([error |-> r.exc]))

detect_anomaly_try(sensor_data, historical_data, answer) ==
    Strict(InputFor(sensor_data, historical_data, anomaly_features), LAMBDA x :
        IF ~IsOk(x) THEN x
        ELSE IF ~Accepts(Get(anomaly_model), Value(x)) \/ answer.raises
        THEN Raise("ValueError")
        ELSE Ok([is_anomaly |-> answer.prediction = -1,
                 anomaly_score |-> answer.score,
                 timestamp |-> "utcnow"]))

detect_anomaly(sensor_data, historical_data, answer) ==
    IF IsNull(anomaly_model) THEN Ok([error |-> "Model not loaded"])
    ELSE Strict(detect_anomaly_try(sensor_data, historical_data, answer), LAMBDA r :
            IF IsOk(r) THEN r ELSE Ok([error |-> r.exc]))

\* predict: both entries, an exception of either call passing through
predict(sensor_data, historical_data, fanswer, aanswer) ==
    Strict(<<predict_failure(sensor_data, historical_data, fanswer),
             detect_anomaly(sensor_data, historical_data, aanswer)>>,
           LAMBDA fa :
               IF ~IsOk(fa[1]) THEN fa[1]
               ELSE IF ~IsOk(fa[2]) THEN fa[2]
               ELSE Ok([failure |-> Value(fa[1]), anomaly |-> Value(fa[2])]))

-----------------------------------------------------------------------------
(* Specification of inference: a service built over some model directory   *)
(* is asked to predict with the stored readings of a device as history.    *)

NoArgs == [sensor_data |-> SensorDict(0), historical_data |-> Null,
           fanswer |-> NoAnswer, aanswer |-> NoAnswer]

InfQuiet ==
    /\ modelDir = EmptyDir
    /\ failure_model = Null
    /\ anomaly_model = Null
    /\ failure_features = Null
    /\ anomaly_features = Null
    /\ infHist = NoHistory
    /\ infOdd = FALSE
    /\ infArgs = NoArgs
    /\ infX = [failure |-> Null, anomaly |-> Null]
    /\ infResult = NoResult
    /\ infPc = "idle"

\* MLInference.__init__ over a model directory
InfStart ==
    /\ \E fk \in DirKinds \cup {"oneclass"}, ak \in DirKinds :
       \E dir \in {DirOf(fk, ak)} :
          /\ modelDir = dir
          /\ failure_model = LoadedModel(dir, "failure_predictor")
          /\ failure_features = LoadedFeatures(dir, "failure_predictor")
          /\ anomaly_model = LoadedModel(dir, "anomaly_detector")
          /\ anomaly_features = LoadedFeatures(dir, "anomaly_detector")
    /\ infHist = NoHistory
    /\ infOdd = FALSE
    /\ infArgs = NoArgs
    /\ infX = [failure |-> Null, anomaly |-> Null]
    /\ infResult = NoResult
    /\ infPc = "idle"

\* one more reading of the device is in the store; at most one is not plain
InfAddReading ==
    /\ infPc = "idle"
    /\ NRows(infHist) < MaxHist
    /\ \E kind \in HistKinds :
          /\ kind # "plain" => ~infOdd
          /\ infHist' = AppendRow(infHist, HistRow(NRows(infHist) + 1, kind))
          /\ infOdd' = (infOdd \/ kind # "plain")
    /\ UNCHANGED <<modelDir, failure_model, anomaly_model, failure_features,
                   anomaly_features, infArgs, infX, infResult, infPc, NotInf>>

\* predict(sensor_data, historical_data); the history is None when the
\* device has no stored reading
InfPredict ==
    /\ infPc = "idle"
    /\ \E sd \in SensorDicts, hist \in {IF NRows(infHist) = 0 THEN Null ELSE Val(infHist)} :
       \E fx \in {IF IsNull(failure_model) THEN Raise("not loaded")
                  ELSE InputFor(sd, hist, failure_features)},
          ax \in {IF IsNull(anomaly_model) THEN Raise("not loaded")
                  ELSE InputFor(sd, hist, anomaly_features)} :
       \E fa \in IF IsOk(fx) THEN FailureAnswers(Get(failure_model)) ELSE {NoAnswer},
          aa \in IF IsOk(ax) THEN AnomalyAnswers ELSE {NoAnswer} :
          /\ infArgs' = [sensor_data |-> sd, historical_data |-> hist,
                         fanswer |-> fa, aanswer |-> aa]
          /\ infX' = [failure |-> IF IsOk(fx) THEN Val(Value(fx)) ELSE Null,
                      anomaly |-> IF IsOk(ax) THEN Val(Value(ax)) ELSE Null]
          /\ infResult' = predict(sd, hist, fa, aa)
    /\ infPc' = "done"
    /\ UNCHANGED <<modelDir, failure_model, anomaly_model, failure_features,
                   anomaly_features, infHist, infOdd, NotInf>>

InfNext == InfAddReading \/ InfPredict

-----------------------------------------------------------------------------
(* The store behind a SQLAlchemy session (autoflush off) *)

DeviceId == "SL001"

EmptyStore == [sensor_data |-> <<>>, alerts |-> <<>>, ml_predictions |-> <<>>]

\* db.add(obj)
Add(pending, table, row) == Append(pending, [table |-> table, row |-> row])

\* the rows a session holds for one table, in the order they were added
PendingRows(pending, table) ==
    LET objs == SelectSeq(pending, LAMBDA o : o.table = table)
    IN  [i \in 1..Len(objs) |-> objs[i].row]

\* db.commit(): every pending object reaches its table
Commit(store, pending) ==
    [t \in DOMAIN store |-> store[t] \o PendingRows(pending, t)]

\* a payload: whether its timestamp is recent, and the ids of the lights it
\* reports with fault_detected (system.faulty_lights counts them)
FaultLists == {<<>>, <<1>>}

Payloads == [fresh : BOOLEAN, faults : FaultLists]

\* the SensorData row create_sensor_data builds from a payload
Reading(id, device_id, data, now) ==
    [id |-> id,
     device_id |-> device_id,
     timestamp |-> IF data.fresh THEN now ELSE now - 2,
     ambient_light |-> 30,
     ambient_light_raw |-> 130,
     active_lights_count |-> 2,
     faulty_lights_count |-> Len(data.faults),
     is_dark |-> FALSE]

\* readings the device sent within the hour before the first request: as
\* many as the longest lag, the last one with a faulty light
PriorReadings ==
    [i \in 1..lags[Len(lags)] |->
        [id |-> i,
         device_id |-> DeviceId,
         timestamp |-> 1,
         ambient_light |-> 10 + i,
         ambient_light_raw |-> 100 + i,
         active_lights_count |-> 2,
         faulty_lights_count |-> IF i = lags[Len(lags)] THEN 1 ELSE 0,
         is_dark |-> FALSE]]

\* a store whose commit of the reading is put off
StoreReadingDeferred(store, row) == store

\* db.add(sensor_data); db.commit(); db.refresh(sensor_data)
StoreReading(store, row) == Commit(store, Add(<<>>, "sensor_data", row))

\* _check_and_create_alerts: one alert per reported light that has no open
\* fault alert in the committed table (pending alerts are not seen: the
\* session does not flush before a query)
HasOpenFault(store, device_id, light_id) ==
    \E i \in DOMAIN store.alerts :
        /\ store.alerts[i].device_id = device_id
        /\ store.alerts[i].light_id = light_id
        /\ store.alerts[i].status = "open"
        /\ store.alerts[i].alert_type = "fault"

NewAlerts(store, device_id, faults) ==
    LET due == SelectSeq(faults, LAMBDA l : ~HasOpenFault(store, device_id, l))
    IN  [i \in 1..Len(due) |->
            [table |-> "alerts",
             row |-> [device_id |-> device_id, alert_type |-> "fault",
                      severity |-> "high", light_id |-> due[i], status |-> "open"]]]

-----------------------------------------------------------------------------
(* Fault alerts: _check_and_create_alerts of ingestions served by several   *)
(* worker processes, each with a session of its own, and resolve_alert      *)

Workers == 1..MaxWorkers

\* the faulted light ids a reading lists, in the order of its light array
AlertFaultLists == {<<>>, <<1>>, <<2>>, <<1, 1>>, <<1, 2>>}

\* the committed open fault alerts of a device's light
OpenFaults(alerts, device_id, light_id) ==
    {i \in DOMAIN alerts :
        /\ alerts[i].device_id = device_id
        /\ alerts[i].light_id = light_id
        /\ alerts[i].status = "open"
        /\ alerts[i].alert_type = "fault"}

AlQuiet ==
    /\ alAlerts = <<>>
    /\ alPc = [w \in Workers |-> "idle"]
    /\ alLights = [w \in Workers |-> <<>>]
    /\ alPending = [w \in Workers |-> <<>>]
    /\ alCount = 0

\* line 47 of create_sensor_data: a worker enters _check_and_create_alerts
\* with the reading it has just committed
AlBegin(w) ==
    /\ alPc[w] = "idle"
    /\ alCount < MaxIngests
    /\ alCount' = alCount + 1
    /\ \E faults \in AlertFaultLists : alLights' = [alLights EXCEPT ![w] = faults]
    /\ alPc' = [alPc EXCEPT ![w] = "loop"]
    /\ UNCHANGED <<alAlerts, alPending, NotAl>>

\* lines 69-90: one round of the loop for a light with fault_detected
AlCheckLight(w) ==
    /\ alPc[w] = "loop"
    /\ alLights[w] # <<>>
    /\ alPending' =
          [alPending EXCEPT ![w] =
              @ \o NewAlerts([EmptyStore EXCEPT !.alerts = alAlerts], DeviceId,
                             <<Head(alLights[w])>>)]
    /\ alLights' = [alLights EXCEPT ![w] = Tail(@)]
    /\ UNCHANGED <<alAlerts, alPc, alCount, NotAl>>

\* line 92: db.commit()
AlCommit(w) ==
    /\ alPc[w] = "loop"
    /\ alLights[w] = <<>>
    /\ alAlerts' = Commit([EmptyStore EXCEPT !.alerts = alAlerts], alPending[w]).alerts
    /\ alPending' = [alPending EXCEPT ![w] = <<>>]
    /\ alPc' = [alPc EXCEPT ![w] = "idle"]
    /\ UNCHANGED <<alLights, alCount, NotAl>>

\* resolve_alert(db, alert_id) for the id of a stored alert
AlResolve ==
    /\ \E i \in DOMAIN alAlerts :
          /\ alAlerts[i].status = "open"
          /\ alAlerts' = [alAlerts EXCEPT ![i].status = "resolved"]
    /\ UNCHANGED <<alPc, alLights, alPending, alCount, NotAl>>

AlNext ==
    \/ \E w \in Workers : AlBegin(w)
    \/ \E w \in Workers : AlCheckLight(w)
    \/ \E w \in Workers : AlCommit(w)
    \/ AlResolve

-----------------------------------------------------------------------------
(* MLService *)

\* the frame _get_historical_data builds from the rows of its query
HistoryFrame(rows) ==
    [cols  |-> history_cols,
     index |-> [i \in 1..Len(rows) |-> i - 1],
     rows  |-> [i \in 1..Len(rows) |->
                  [c \in Range(history_cols) |->
                      IF c = "timestamp"
                      THEN Val([repr |-> "datetime", t |-> rows[i].timestamp])
                      ELSE Val(rows[i][c])]]]

\* _get_historical_data(db, device_id, hours=1): the device's readings of
\* the last hour, oldest first; None when there is none or the query raises
\* (ok = FALSE)
_get_historical_data(store, device_id, now, ok) ==
    LET query == SelectSeq(store.sensor_data,
                           LAMBDA r : r.device_id = device_id /\ r.timestamp >= now - 1)
    IN  IF ~ok \/ Len(query) = 0 THEN Null
        ELSE Val(reset_index(Value(sort_values(HistoryFrame(query), "timestamp"))))

\* a store step that keeps the failure result only
FailureRecordOnly(device_id, predictions) ==
    IF "failure" \in DOMAIN predictions /\ "error" \notin DOMAIN predictions.failure
    THEN <<[table |-> "ml_predictions",
            row |-> [device_id |-> device_id,
                     prediction_type |-> "failure",
                     prediction_value |-> predictions.failure.failure_probability,
                     prediction_label |-> IF predictions.failure.prediction = 1
                                          THEN "failure" ELSE "normal",
                     confidence |-> predictions.failure.probability,
                     model_name |-> "failure_predictor"]]>>
    ELSE <<>>

\* the MLPrediction objects _store_predictions adds for a predict result
PredictionRecords(device_id, predictions) ==
    (IF "failure" \in DOMAIN predictions /\ "error" \notin DOMAIN predictions.failure
     THEN <<[table |-> "ml_predictions",
             row |-> [device_id |-> device_id,
                      prediction_type |-> "failure",
                      prediction_value |-> predictions.failure.failure_probability,
                      prediction_label |-> IF predictions.failure.prediction = 1
                                           THEN "failure" ELSE "normal",
                      confidence |-> predictions.failure.probability,
                      model_name |-> "failure_predictor"]]>>
     ELSE <<>>) \o
    (IF "anomaly" \in DOMAIN predictions /\ "error" \notin DOMAIN predictions.anomaly
     THEN <<[table |-> "ml_predictions",
             row |-> [device_id |-> device_id,
                      prediction_type |-> "anomaly",
                      prediction_value |-> predictions.anomaly.anomaly_score,
                      prediction_label |-> IF predictions.anomaly.is_anomaly
                                           THEN "anomaly" ELSE "normal",
                      confidence |-> IF predictions.anomaly.anomaly_score < 0
                                     THEN 0 - predictions.anomaly.anomaly_score
                                     ELSE predictions.anomaly.anomaly_score,
                      model_name |-> "anomaly_detector"]]>>
     ELSE <<>>)

-----------------------------------------------------------------------------
(* DataService.create_sensor_data, one request at a time *)

\* an except clause that lets the exception out of create_sensor_data
ml_failure_raised(e) == [pc |-> "done", ret |-> Raise(e)]

\* the except clause around the ML part: log, and go on to return the row
ml_failure_logged(e) == [pc |-> "return", ret |-> NoResult]

IngQuiet ==
    /\ db = EmptyStore
    /\ session = <<>>
    /\ clock = 2
    /\ ingCount = 0
    /\ ingPc = "idle"
    /\ ingData = [fresh |-> TRUE, faults |-> <<>>]
    /\ ingRow = Null
    /\ ingHist = Null
    /\ ingPreds = NoResult
    /\ ingRet = NoResult
    /\ ingPath = <<>>

\* a service over some model directory, its store empty or holding the
\* device's readings of the last hour
IngStart ==
    /\ \E fk \in DirKinds \ {"noschema"}, ak \in DirKinds \ {"noschema"} :
          modelDir = DirOf(fk, ak)
    /\ failure_model = Null
    /\ anomaly_model = Null
    /\ failure_features = Null
    /\ anomaly_features = Null
    /\ infHist = NoHistory
    /\ infOdd = FALSE
    /\ infArgs = NoArgs
    /\ infX = [failure |-> Null, anomaly |-> Null]
    /\ infResult = NoResult
    /\ infPc = "idle"
    /\ db \in {EmptyStore, [EmptyStore EXCEPT !.sensor_data = PriorReadings]}
    /\ session = <<>>
    /\ clock = 2
    /\ ingCount = 0
    /\ ingPc = "idle"
    /\ ingData = [fresh |-> TRUE, faults |-> <<>>]
    /\ ingRow = Null
    /\ ingHist = Null
    /\ ingPreds = NoResult
    /\ ingRet = NoResult
    /\ ingPath = <<>>

\* an hour passes between two requests
IngTick ==
    /\ ingPc \in {"idle", "done"}
    /\ clock < MaxClock
    /\ clock' = clock + 1
    /\ UNCHANGED <<db, session, ingCount, ingPc, ingData, ingRow, ingHist, ingPreds,
                   ingRet, ingPath, modelDir, mlVars, NotIng>>

\* the artifact files after a later training run on the same data wrote
\* them again: the model files that exist hold the model of run 2
Retrained(dir) ==
    [f \in ModelFiles |->
        IF f \in {"failure_predictor.pkl", "anomaly_detector.pkl"} /\ ~IsNull(dir[f])
        THEN Val([Get(dir[f]) EXCEPT !.run = 2])
        ELSE dir[f]]

\* between two requests the training script is run again and replaces the
\* artifact files on disk; the server process is not restarted
IngDeploy ==
    /\ ingPc \in {"idle", "done"}
    /\ Retrained(modelDir) # modelDir
    /\ modelDir' = Retrained(modelDir)
    /\ UNCHANGED <<db, session, clock, ingCount, ingPc, ingData, ingRow, ingHist,
                   ingPreds, ingRet, ingPath, mlVars, NotIng>>

\* lines 23-44: build the row, add it, commit, refresh
IngCommit ==
    /\ ingPc \in {"idle", "done"}
    /\ ingCount < MaxRequests
    /\ ingCount' = ingCount + 1
    /\ \E data \in Payloads, ok \in BOOLEAN :
       \E row \in {Reading(Len(db.sensor_data) + 1, DeviceId, data, clock)} :
          /\ ingData' = data
          /\ IF ok
             THEN /\ db' = StoreReading(db, row)
                  /\ ingRow' = Val(row)
                  /\ ingPc' = "alerts"
                  /\ ingRet' = NoResult
                  /\ ingPath' = <<"commit">>
             ELSE /\ db' = db
                  /\ ingRow' = Null
                  /\ ingPc' = "done"
                  /\ ingRet' = Raise("OperationalError")
                  /\ ingPath' = <<"commit_failed">>
    /\ session' = <<>>
    /\ ingHist' = Null
    /\ ingPreds' = NoResult
    /\ failure_model' = Null
    /\ anomaly_model' = Null
    /\ failure_features' = Null
    /\ anomaly_features' = Null
    /\ UNCHANGED <<clock, modelDir, NotIng>>

\* line 47: _check_and_create_alerts, outside the try block
IngAlerts ==
    /\ ingPc = "alerts"
    /\ \E ok \in BOOLEAN :
          IF ok
          THEN /\ db' = Commit(db, NewAlerts(db, DeviceId, ingData.faults))
               /\ ingPc' = "ml_init"
               /\ ingRet' = ingRet
               /\ ingPath' = Append(ingPath, "alerts")
          ELSE /\ db' = db
               /\ ingPc' = "done"
               /\ ingRet' = Raise("OperationalError")
               /\ ingPath' = Append(ingPath, "alerts_failed")
    /\ UNCHANGED <<session, clock, ingCount, ingData, ingRow, ingHist, ingPreds,
                   modelDir, mlVars, NotIng>>

\* line 51: MLService() builds an MLInference, which loads the models; a
\* file that cannot be unpickled raises into the except clause of line 60
IngMLInit ==
    /\ ingPc = "ml_init"
    /\ \E ok \in BOOLEAN :
          IF ok
          THEN /\ failure_model' = LoadedModel(modelDir, "failure_predictor")
               /\ failure_features' = LoadedFeatures(modelDir, "failure_predictor")
               /\ anomaly_model' = LoadedModel(modelDir, "anomaly_detector")
               /\ anomaly_features' = LoadedFeatures(modelDir, "anomaly_detector")
               /\ ingPc' = "history"
               /\ ingRet' = ingRet
               /\ ingPath' = Append(ingPath, "ml_init")
          ELSE /\ UNCHANGED mlVars
               /\ ingPc' = ml_failure_logged("UnpicklingError").pc
               /\ ingRet' = ml_failure_logged("UnpicklingError").ret
               /\ ingPath' = Append(ingPath, "ml_init_failed")
    /\ UNCHANGED <<db, session, clock, ingCount, ingData, ingRow, ingHist, ingPreds,
                   modelDir, NotIng>>

\* generate_predictions, line 38: the history of the device
IngHistory ==
    /\ ingPc = "history"
    /\ \E ok \in BOOLEAN :
          /\ ingHist' = _get_historical_data(db, DeviceId, clock, ok)
          /\ ingPath' = Append(ingPath, IF ok THEN "history" ELSE "history_failed")
    /\ ingPc' = "predict"
    /\ UNCHANGED <<db, session, clock, ingCount, ingData, ingRow, ingPreds, ingRet,
                   modelDir, mlVars, NotIng>>

\* generate_predictions, line 41: predict
IngPredict ==
    /\ ingPc = "predict"
    /\ \E sd \in {SensorDict(Len(ingData.faults))} :
       \E fx \in {IF IsNull(failure_model) THEN Raise("not loaded")
                  ELSE InputFor(sd, ingHist, failure_features)},
          ax \in {IF IsNull(anomaly_model) THEN Raise("not loaded")
                  ELSE InputFor(sd, ingHist, anomaly_features)} :
       \E fa \in IF IsOk(fx) THEN FailureAnswers(Get(failure_model)) ELSE {NoAnswer},
          aa \in IF IsOk(ax) THEN AnomalyAnswers ELSE {NoAnswer} :
          ingPreds' = predict(sd, ingHist, fa, aa)
    /\ ingPc' = "store"
    /\ ingPath' = Append(ingPath, "predict")
    /\ UNCHANGED <<db, session, clock, ingCount, ingData, ingRow, ingHist, ingRet,
                   modelDir, mlVars, NotIng>>

\* generate_predictions, line 44: _store_predictions adds a record per
\* kind without error and commits; a failed commit is rolled back, and a
\* rollback that fails too is caught by generate_predictions
IngStore ==
    /\ ingPc = "store"
    /\ \E outcome \in {"stored", "store_failed", "rollback_failed"} :
          /\ IF ~IsOk(ingPreds)
             THEN db' = db /\ session' = session
             ELSE IF outcome = "stored"
             THEN /\ db' = Commit(db, PredictionRecords(DeviceId, Value(ingPreds)))
                  /\ session' = <<>>
             ELSE /\ db' = db
                  /\ session' = IF outcome = "store_failed" THEN <<>>
                                ELSE PredictionRecords(DeviceId, Value(ingPreds))
          /\ ingPath' = Append(ingPath, outcome)
    /\ ingPc' = "return"
    /\ UNCHANGED <<clock, ingCount, ingData, ingRow, ingHist, ingPreds, ingRet,
                   modelDir, mlVars, NotIng>>

\* line 65: return sensor_data
IngReturn ==
    /\ ingPc = "return"
    /\ ingRet' = Ok(Get(ingRow))
    /\ ingPc' = "done"
    /\ ingPath' = Append(ingPath, "return")
    /\ UNCHANGED <<db, session, clock, ingCount, ingData, ingRow, ingHist, ingPreds,
                   modelDir, mlVars, NotIng>>

IngNext ==
    \/ IngTick
    \/ IngDeploy
    \/ IngCommit
    \/ IngAlerts
    \/ IngMLInit
    \/ IngHistory
    \/ IngPredict
    \/ IngStore
    \/ IngReturn

-----------------------------------------------------------------------------
(* Interleaved invocations of MLService.generate_predictions for one device. *)
(* Every request has its own session, MLService and MLInference; all of     *)
(* them loaded the same files, so mlVars stand for the fields of each.      *)

Calls == 1..MaxCalls

\* the locals of one invocation: its argument and its historical_data
CallSensor(c) == gpSensor[c]

CallHistoryOfFirst(c) == gpHist[1]

CallHistory(c) == gpHist[c]

GpQuiet ==
    /\ gpPc = [c \in Calls |-> "idle"]
    /\ gpSensor = [c \in Calls |-> SensorDict(0)]
    /\ gpSeen = [c \in Calls |-> 0]
    /\ gpHist = [c \in Calls |-> Null]
    /\ gpFrame = [c \in Calls |-> Null]
    /\ gpPreds = [c \in Calls |-> NoResult]

\* services whose models and schemas are loaded, over a store that holds the
\* device's readings of the last hour
GpStart ==
    /\ GpQuiet
    /\ \E dir \in {DirOf("ok", "ok")} :
          /\ modelDir = dir
          /\ failure_model = LoadedModel(dir, "failure_predictor")
          /\ failure_features = LoadedFeatures(dir, "failure_predictor")
          /\ anomaly_model = LoadedModel(dir, "anomaly_detector")
          /\ anomaly_features = LoadedFeatures(dir, "anomaly_detector")
    /\ infHist = NoHistory
    /\ infOdd = FALSE
    /\ infArgs = NoArgs
    /\ infX = [failure |-> Null, anomaly |-> Null]
    /\ infResult = NoResult
    /\ infPc = "idle"
    /\ db = [EmptyStore EXCEPT !.sensor_data = PriorReadings]
    /\ session = <<>>
    /\ clock = 2
    /\ ingCount = 0
    /\ ingPc = "idle"
    /\ ingData = [fresh |-> TRUE, faults |-> <<>>]
    /\ ingRow = Null
    /\ ingHist = Null
    /\ ingPreds = NoResult
    /\ ingRet = NoResult
    /\ ingPath = <<>>

\* the payloads of the requests differ, so that a reading names its request:
\* the c-th reports c - 1 faulty lights
CallFaults(c) == [i \in 1..(c - 1) |-> i]

\* create_sensor_data, lines 23-59: the request commits its reading and its
\* alerts, then calls generate_predictions with the dict of that reading
GpCall(c) ==
    /\ gpPc[c] = "idle"
    /\ \E faults \in {CallFaults(c)} :
       \E row \in {Reading(Len(db.sensor_data) + 1, DeviceId,
                            [fresh |-> TRUE, faults |-> faults], clock)} :
       \E stored \in {StoreReading(db, row)} :
          /\ db' = Commit(stored, NewAlerts(stored, DeviceId, faults))
          /\ gpSensor' = [gpSensor EXCEPT ![c] = SensorDict(Len(faults))]
    /\ gpPc' = [gpPc EXCEPT ![c] = "history"]
    /\ UNCHANGED <<gpSeen, gpHist, gpFrame, gpPreds, NotGp>>

\* generate_predictions, line 38
GpHistory(c) ==
    /\ gpPc[c] = "history"
    /\ \E ok \in BOOLEAN :
          gpHist' = [gpHist EXCEPT ![c] = _get_historical_data(db, DeviceId, clock, ok)]
    /\ gpSeen' = [gpSeen EXCEPT ![c] = Len(db.sensor_data)]
    /\ gpPc' = [gpPc EXCEPT ![c] = "predict"]
    /\ UNCHANGED <<db, gpSensor, gpFrame, gpPreds, NotGp>>

\* generate_predictions, line 41: predict on the invocation's own locals;
\* the fitted models, functions of their input, answer "failure" and
\* "anomaly" whenever they are invoked
GpPredict(c) ==
    /\ gpPc[c] = "predict"
    /\ \E sd \in {CallSensor(c)}, hist \in {CallHistory(c)} :
       \E fa \in {a \in FailureAnswers(Get(failure_model)) : a.proba = <<20, 80>>},
          aa \in {a \in AnomalyAnswers : a.prediction = -1} :
          /\ gpFrame' = [gpFrame EXCEPT ![c] = Val(InferenceFrame(sd, hist))]
          /\ gpPreds' = [gpPreds EXCEPT ![c] = predict(sd, hist, fa, aa)]
    /\ gpPc' = [gpPc EXCEPT ![c] = "store"]
    /\ UNCHANGED <<db, gpSensor, gpSeen, gpHist, NotGp>>

\* generate_predictions, line 44: _store_predictions commits a record per
\* kind without error; a failed commit is rolled back in the request's own
\* session
GpStore(c) ==
    /\ gpPc[c] = "store"
    /\ \E ok \in BOOLEAN :
          db' = IF ok /\ IsOk(gpPreds[c])
                THEN Commit(db, PredictionRecords(DeviceId, Value(gpPreds[c])))
                ELSE db
    /\ gpPc' = [gpPc EXCEPT ![c] = "done"]
    /\ UNCHANGED <<gpSensor, gpSeen, gpHist, gpFrame, gpPreds, NotGp>>

GpNext ==
    \E c \in Calls :
        \/ GpCall(c)
        \/ GpHistory(c)
        \/ GpPredict(c)
        \/ GpStore(c)

-----------------------------------------------------------------------------
(* DataCollector.collect_device_data; time in days *)

Devices == {DeviceId, "SL002"}

\* utcnow at the call, and the times a row may carry: older than the
\* default range, and within it
ColNow == DefaultDays + 1

ColTimes == {0, ColNow - 1, ColNow}

\* lights_data: NULL, the JSON text of a one-light array, or that of an
\* array with light 2 and an entry whose id is outside 1..4
LightsChoices ==
    {Null,
     Val([ok |-> TRUE,
          lights |-> <<[id |-> 1, ldr_value |-> 500, ldr_raw |-> 2000,
                        ir_sensor |-> TRUE, light_state |-> TRUE,
                        fault_detected |-> FALSE]>>]),
     Val([ok |-> TRUE,
          lights |-> <<[id |-> 2, ldr_value |-> 300, ldr_raw |-> 1200,
                        ir_sensor |-> FALSE, light_state |-> FALSE,
                        fault_detected |-> TRUE],
                       [id |-> 5, ldr_value |-> 900, ldr_raw |-> 3600,
                        ir_sensor |-> TRUE, light_state |-> TRUE,
                        fault_detected |-> TRUE]>>])}

\* a row of sensor_data
StoredRow(id, device_id, t, lights) ==
    [c \in Range(query_cols) |->
        CASE c = "id" -> Val(id)
          [] c = "device_id" -> Val(device_id)
          [] c = "timestamp" -> Val([repr |-> "datetime", t |-> t])
          [] c = "ambient_light" -> Val(10 + id)
          [] c = "ambient_light_raw" -> Val(100 + id)
          [] c = "gps_latitude" -> Val(18)
          [] c = "gps_longitude" -> Val(73)
          [] c = "gps_valid" -> Val(TRUE)
          [] c = "lights_data" -> lights
          [] c = "is_dark" -> Val(FALSE)
          [] c = "active_lights_count" -> Val(2)
          [] c = "faulty_lights_count" -> Val(0)
          [] c = "created_at" -> Val([repr |-> "datetime", t |-> t])]

\* pd.read_sql of the query: the device's rows within the range, by time
read_sql(table, device_id, start_date, end_date) ==
    LET hits == SelectSeq(table, LAMBDA r :
                    /\ Get(r["device_id"]) = device_id
                    /\ Get(r["timestamp"]).t >= start_date
                    /\ Get(r["timestamp"]).t <= end_date)
    IN  reset_index(Value(sort_values(
            [cols |-> query_cols, index |-> [i \in 1..Len(hits) |-> i - 1], rows |-> hits],
            "timestamp")))

\* the value _parse_lights_data leaves in one light column of a row: None,
\* or what the last light of that id in the row's array says
LightCell(ld, k) ==
    LET id    == ((k - 1) \div 5) + 1
        field == ((k - 1) % 5) + 1
    IN  IF IsNull(ld) \/ ~Get(ld).ok THEN Null
        ELSE LET of_id == SelectSeq(Get(ld).lights, LAMBDA l : l.id = id)
             IN  IF Len(of_id) = 0 THEN Null
                 ELSE LET l == of_id[Len(of_id)]
                      IN  CASE field = 1 -> Val(l.ldr_value)
                            [] field = 2 -> Val(l.ldr_raw)
                            [] field = 3 -> Val(IF l.ir_sensor THEN 1 ELSE 0)
                            [] field = 4 -> Val(IF l.light_state THEN 1 ELSE 0)
                            [] field = 5 -> Val(IF l.fault_detected THEN 1 ELSE 0)

_parse_lights_data(df) ==
    Strict(df, LAMBDA d :
        [cols  |-> d.cols \o LightColSeq,
         index |-> d.index,
         rows  |-> [i \in 1..NRows(d) |->
                      [c \in Range(d.cols) \cup Range(LightColSeq) |->
                          IF c \in Range(LightColSeq)
                          THEN LightCell(d.rows[i]["lights_data"],
                                         CHOOSE k \in DOMAIN LightColSeq : LightColSeq[k] = c)
                          ELSE d.rows[i][c]]]])

\* lines 93-98: what is returned of a frame that is long enough
Collected(df) ==
    Strict(df, LAMBDA d :
        IF HasCol(d, "lights_data")
           /\ \E i \in 1..NRows(d) : ~IsNull(d.rows[i]["lights_data"])
        THEN _parse_lights_data(d)
        ELSE d)

\* the dates the query runs with: the arguments, or the last DefaultDays days
StartDate(start_date, now) == IF IsNull(start_date) THEN now - DefaultDays ELSE Get(start_date)

EndDate(end_date, now) == IF IsNull(end_date) THEN now ELSE Get(end_date)

\* collect_device_data without its check of the number of rows
collect_device_data_unchecked(table, device_id, start_date, end_date, min_readings, now) ==
    Collected(read_sql(table, device_id, StartDate(start_date, now), EndDate(end_date, now)))

collect_device_data(table, device_id, start_date, end_date, min_readings, now) ==
    Strict(read_sql(table, device_id, StartDate(start_date, now), EndDate(end_date, now)),
           LAMBDA df : IF NRows(df) < min_readings THEN EmptyFrame ELSE Collected(df))

NoCall == [device_id |-> DeviceId, start_date |-> Null, end_date |-> Null, min_readings |-> 0]

ColQuiet ==
    /\ colTable = <<>>
    /\ colArgs = NoCall
    /\ colOut = EmptyFrame
    /\ colPc = "idle"

\* a device's reading reaches the table
ColInsert ==
    /\ colPc = "idle"
    /\ Len(colTable) < MaxTable
    /\ \E device_id \in Devices, t \in ColTimes, lights \in LightsChoices :
          colTable' = Append(colTable, StoredRow(Len(colTable) + 1, device_id, t, lights))
    /\ UNCHANGED <<colArgs, colOut, colPc, NotCol>>

ColCollect ==
    /\ colPc = "idle"
    /\ \E device_id \in Devices, start_date \in {Null, Val(0)},
          end_date \in {Null, Val(ColNow - 1)}, min_readings \in 0..MaxMin :
          /\ colArgs' = [device_id |-> device_id, start_date |-> start_date,
                         end_date |-> end_date, min_readings |-> min_readings]
          /\ colOut' = collect_device_data(colTable, device_id, start_date, end_date,
                                           min_readings, ColNow)
    /\ colPc' = "called"
    /\ UNCHANGED <<colTable, NotCol>>

ColNext == ColInsert \/ ColCollect

-----------------------------------------------------------------------------
(* ModelTrainer *)

ModelName(kind) == IF kind = "failure" THEN "failure_predictor" ELSE "anomaly_detector"

\* a table of n rows as the collector writes it, the last but one with a
\* faulty light; narrow: only the columns the service reads back as history
TableOf(n, narrow) ==
    [cols  |-> IF narrow THEN history_cols ELSE WideCols,
     index |-> [i \in 1..n |-> i - 1],
     rows  |-> [i \in 1..n |->
                  [c \in Range(IF narrow THEN history_cols ELSE WideCols) |->
                      WideRow(i, IF i = n - 1 THEN "faulty" ELSE "plain")[c]]]]

\* a table without one of its columns
Without(df, col) ==
    [cols  |-> SelectSeq(df.cols, LAMBDA c : c # col),
     index |-> df.index,
     rows  |-> [i \in 1..NRows(df) |->
                  [c \in Range(df.cols) \ {col} |-> df.rows[i][c]]]]

\* the files a run may be pointed at: one without a byte, one with a
\* header line only, one too short for any row to survive the pruning,
\* full ones, and a full one that has no faulty_lights_count column
Datasets ==
    {Null, Val(TableOf(0, FALSE)), Val(TableOf(3, FALSE)),
     Val(TableOf(MaxRows, FALSE)), Val(TableOf(MaxRows, TRUE)),
     Val(Without(TableOf(MaxRows, TRUE), "faulty_lights_count"))}

\* pd.read_csv: a file without a byte has no columns to parse
read_csv(file) == IF IsNull(file) THEN Raise("EmptyDataError") ELSE Ok(Get(file))

\* a loader that lets an empty frame through
load_any(file) == read_csv(file)

\* lines 42-45 / 111-114: read the file, refuse an empty frame
load_dataset(file) ==
    IF ~IsOk(read_csv(file)) THEN read_csv(file)
    ELSE IF IsEmpty(Value(read_csv(file))) THEN Raise("Empty dataset provided")
    ELSE read_csv(file)

\* lines 49-60 / 118-124: the engineered frame's columns, feature_cols, the
\* columns of X = df[feature_cols].fillna(0), and (failure) the synthetic
\* target when create_features made none
Prepared(df, kind) ==
    Strict(create_features(df, IF kind = "failure" THEN "failure" ELSE "none"), LAMBDA r :
        IF ~IsOk(r) THEN r
        ELSE IF kind = "failure" /\ ~HasCol(Value(r), "target_failure")
                /\ ~HasCol(Value(r), "faulty_lights_count")
        THEN Raise("KeyError")
        ELSE Strict(get_feature_columns(Value(r)), LAMBDA feature_cols :
                 Ok([feature_cols |-> feature_cols,
                     columns |-> Value(r).cols,
                     X_columns |-> Value(SelectCols(Value(r), Val(feature_cols))).cols,
                     n_samples |-> NRows(Value(r))])))

TrQuiet ==
    /\ trRun = 0
    /\ trPc = "idle"
    /\ trKind = "failure"
    /\ trData = Null
    /\ trFit = Null
    /\ trRet = NoResult
    /\ trSteps = <<>>
    /\ trDirBefore = EmptyDir
    /\ trWrittenBy = [f \in ModelFiles |-> 0]

\* a run ends with an exception
TrainRaises(e, step) ==
    /\ trRet' = Raise(e)
    /\ trPc' = "idle"
    /\ trSteps' = Append(trSteps, step)

\* a run begins: lines 41-45 / 110-114
TrainRead ==
    /\ trPc = "idle"
    /\ trRun < MaxRuns
    /\ trRun' = trRun + 1
    /\ trDirBefore' = modelDir
    /\ trFit' = Null
    /\ \E kind \in {"failure", "anomaly"}, file \in Datasets :
          /\ trKind' = kind
          /\ trData' = file
          /\ IF IsOk(load_dataset(file))
             THEN trRet' = NoResult /\ trPc' = "features"
             ELSE trRet' = load_dataset(file) /\ trPc' = "idle"
    /\ trSteps' = <<"read">>
    /\ UNCHANGED <<modelDir, trWrittenBy, NotTrain>>

\* lines 47-60 / 116-124
TrainFeatures ==
    /\ trPc = "features"
    /\ \E r \in {Prepared(Get(trData), trKind)} :
          IF IsOk(r)
          THEN /\ trFit' = Val(Value(r))
               /\ trPc' = "fit"
               /\ trSteps' = Append(trSteps, "features")
               /\ trRet' = trRet
          ELSE /\ trFit' = trFit
               /\ TrainRaises(r.exc, "features")
    /\ UNCHANGED <<modelDir, trRun, trKind, trData, trDirBefore, trWrittenBy, NotTrain>>

\* lines 62-83 / 126-133: split and fit; no sample is an error, and the
\* split or the fit may refuse the samples there are
TrainFit ==
    /\ trPc = "fit"
    /\ \E ok \in BOOLEAN :
          IF ok /\ Get(trFit).n_samples > 0
          THEN /\ trPc' = "dump_model"
               /\ trSteps' = Append(trSteps, "fit")
               /\ trRet' = trRet
          ELSE TrainRaises("ValueError", "fit")
    /\ UNCHANGED <<modelDir, trRun, trKind, trData, trFit, trDirBefore, trWrittenBy,
                   NotTrain>>

\* lines 86-87 / 136-137: joblib.dump(model, model_path)
TrainDumpModel ==
    /\ trPc = "dump_model"
    /\ \E ok \in BOOLEAN :
          IF ok
          THEN /\ modelDir' = [modelDir EXCEPT ![ModelName(trKind) \o ".pkl"] =
                                  Val(Artifact(trRun, Get(trFit).feature_cols))]
               /\ trWrittenBy' = [trWrittenBy EXCEPT ![ModelName(trKind) \o ".pkl"] = trRun]
               /\ trPc' = "dump_features"
               /\ trSteps' = Append(trSteps, "dump_model")
               /\ trRet' = trRet
          ELSE /\ UNCHANGED <<modelDir, trWrittenBy>>
               /\ TrainRaises("OSError", "dump_model")
    /\ UNCHANGED <<trRun, trKind, trData, trFit, trDirBefore, NotTrain>>

\* lines 90-91 / 140-141: joblib.dump(feature_cols, feature_path)
TrainDumpFeatures ==
    /\ trPc = "dump_features"
    /\ \E ok \in BOOLEAN :
          IF ok
          THEN /\ modelDir' = [modelDir EXCEPT ![ModelName(trKind) \o "_features.pkl"] =
                                  Val(Get(trFit).feature_cols)]
               /\ trWrittenBy' =
                     [trWrittenBy EXCEPT ![ModelName(trKind) \o "_features.pkl"] = trRun]
               /\ trPc' = "return"
               /\ trSteps' = Append(trSteps, "dump_features")
               /\ trRet' = trRet
          ELSE /\ UNCHANGED <<modelDir, trWrittenBy>>
               /\ TrainRaises("OSError", "dump_features")
    /\ UNCHANGED <<trRun, trKind, trData, trFit, trDirBefore, NotTrain>>

\* lines 93-102 / 143-150
TrainReturn ==
    /\ trPc = "return"
    /\ trRet' = Ok([model_path |-> ModelName(trKind) \o ".pkl",
                    feature_path |-> ModelName(trKind) \o "_features.pkl",
                    feature_count |-> Len(Get(trFit).feature_cols)])
    /\ trPc' = "idle"
    /\ trSteps' = Append(trSteps, "return")
    /\ UNCHANGED <<modelDir, trRun, trKind, trData, trFit, trDirBefore, trWrittenBy,
                   NotTrain>>

TrainNext ==
    \/ TrainRead
    \/ TrainFeatures
    \/ TrainFit
    \/ TrainDumpModel
    \/ TrainDumpFeatures
    \/ TrainReturn

-----------------------------------------------------------------------------
(* The specifications *)

FEInit == FEStart /\ InfQuiet /\ IngQuiet /\ ColQuiet /\ TrQuiet /\ GpQuiet /\ StQuiet
    /\ SoQuiet
    /\ LiQuiet /\ AlQuiet

SpecFE == FEInit /\ [][FENext]_vars

InfInit == InfStart /\ FEQuiet /\ IngQuiet /\ ColQuiet /\ TrQuiet /\ GpQuiet /\ StQuiet
    /\ SoQuiet
    /\ LiQuiet /\ AlQuiet

SpecInf == InfInit /\ [][InfNext]_vars

IngInit == IngStart /\ FEQuiet /\ ColQuiet /\ TrQuiet /\ GpQuiet /\ StQuiet /\ SoQuiet
    /\ LiQuiet /\ AlQuiet

SpecIngest == IngInit /\ [][IngNext]_vars

ColInit == ColQuiet /\ FEQuiet /\ InfQuiet /\ IngQuiet /\ TrQuiet /\ GpQuiet /\ StQuiet
    /\ SoQuiet
    /\ LiQuiet /\ AlQuiet

SpecCollect == ColInit /\ [][ColNext]_vars

TrainInit == TrQuiet /\ FEQuiet /\ InfQuiet /\ IngQuiet /\ ColQuiet /\ GpQuiet /\ StQuiet
    /\ SoQuiet
    /\ LiQuiet /\ AlQuiet

SpecTrain == TrainInit /\ [][TrainNext]_vars

GpInit == GpStart /\ FEQuiet /\ ColQuiet /\ TrQuiet /\ StQuiet /\ SoQuiet /\ LiQuiet
    /\ AlQuiet

SpecInvocations == GpInit /\ [][GpNext]_vars

StInit == StStart /\ FEQuiet /\ InfQuiet /\ IngQuiet /\ ColQuiet /\ TrQuiet /\ GpQuiet
    /\ SoQuiet
    /\ LiQuiet /\ AlQuiet

SpecSeries == StInit /\ [][StNext]_vars

SoInit == SoQuiet /\ FEQuiet /\ InfQuiet /\ IngQuiet /\ ColQuiet /\ TrQuiet /\ GpQuiet
    /\ StQuiet
    /\ LiQuiet /\ AlQuiet

SpecSort == SoInit /\ [][SoNext]_vars

LiInit == LiStart /\ FEQuiet /\ InfQuiet /\ IngQuiet /\ ColQuiet /\ TrQuiet /\ GpQuiet
    /\ StQuiet /\ SoQuiet /\ AlQuiet

SpecLights == LiInit /\ [][LiNext]_vars

AlInit == AlQuiet /\ FEQuiet /\ InfQuiet /\ IngQuiet /\ ColQuiet /\ TrQuiet /\ GpQuiet
    /\ StQuiet /\ SoQuiet /\ LiQuiet

SpecAlerts == AlInit /\ [][AlNext]_vars

-----------------------------------------------------------------------------
(* Properties of feature engineering *)

\* C5: create_features is a function of the row sequence alone: the same
\* rows in the same order give the same frame (rows, columns, values, labels)
\* whether they were sliced from a bulk table or assembled as a window.
C5_Deterministic ==
    fePc = "called" => feOut = feOutWindow

C5_Witness ==
    /\ fePc = "called"
    /\ IsOk(feOut)
    /\ NRows(Value(feOut)) >= 1
    /\ AsSlice(feIn, MaxOffset) # feIn

\* the columns made by shift(lag) and diff()
IsLagOrDiff(c) ==
    \E n \in Range(numeric_cols) :
        \/ c = n \o "_diff"
        \/ \E k \in Range(lags) : c = n \o "_lag_" \o ToString(k)

LagDiffNull(r) == \E c \in DOMAIN r : IsLagOrDiff(c) /\ IsNull(r[c])

\* C6: pruning drops a row iff one of its lag or diff columns is null, so
\* with lags {1,3,6} exactly the first 6 rows of the sorted frame go.
C6_PruneOnlyLagDiff ==
    (fePc = "called" /\ IsOk(feOutWindow) /\ NRows(feIn) > 0) =>
        LET e == Engineered(feIn, feTarget)
        IN  /\ Value(feOutWindow).index =
                  Ascending({i - 1 : i \in {j \in 1..NRows(e) : ~LagDiffNull(e.rows[j])}})
            /\ Value(feOutWindow).index = [j \in 1..(NRows(feIn) - 6) |-> j + 5]

\* C27: create_features only adds columns: every column of the caller's
\* table holds, on every row that survives, the value it held in the table
\* (the timestamp included), and the caller's table is left as it was.
C27_StepsOnlyAddColumns ==
    (fePc = "called" /\ IsOk(feOutWindow)) =>
        \A r \in 1..NRows(Value(feOutWindow)) :
            \E i \in 1..NRows(feIn) :
                /\ feIn.rows[i]["id"] = Value(feOutWindow).rows[r]["id"]
                /\ \A c \in Range(feIn.cols) :
                      Value(feOutWindow).rows[r][c] = feIn.rows[i][c]

-----------------------------------------------------------------------------
(* Properties of the steps along the time axis; rows are numbered from 1,  *)
(* so the row the source calls i is row i + 1 here                         *)

\* the values of a column of the input frame, none of them null
Series(col) == [i \in 1..NRows(stSeries) |-> Get(stSeries.rows[i][col])]

\* the rows a window of size W ending at row i covers
WindowRows(i, W) == {k \in 1..i : k > i - W}

\* the cell a step put in column name of row i
OutCell(i, name) == Get(stOut).rows[i][name]

\* a ratio cell equals the whole number n
RatioIs(cell, n) == ~IsNull(cell) /\ Get(cell).num = n * Get(cell).den

\* C17: the rolling mean, min and max of ambient light, active-light count
\* and faulty-light count at a row are taken over the row and the W-1 rows
\* before it, over fewer at the start of the frame; with W = 3, ambient
\* light 10, 20, 30, 40 has rolling mean 10, 15, 20, 30.
C17_PartialWindows ==
    stPc = "rolling" =>
        /\ \A c \in 1..Len(numeric_cols) : \A i \in 1..NRows(stSeries) :
              \A col \in {numeric_cols[c]}, rows \in {WindowRows(i, stWindow)} :
                 /\ ~IsNull(OutCell(i, col \o "_rolling_mean"))
                 /\ Get(OutCell(i, col \o "_rolling_mean")).num * Cardinality(rows) =
                       SumSeq([k \in 1..Cardinality(rows) |->
                                  Series(col)[i - Cardinality(rows) + k]]) *
                       Get(OutCell(i, col \o "_rolling_mean")).den
                 /\ OutCell(i, col \o "_rolling_min") =
                       Val(SetMin({Series(col)[k] : k \in rows}))
                 /\ OutCell(i, col \o "_rolling_max") =
                       Val(SetMax({Series(col)[k] : k \in rows}))
        /\ (stWindow = 3 /\ Series("ambient_light") = <<10, 20, 30, 40>>) =>
              /\ RatioIs(OutCell(1, "ambient_light_rolling_mean"), 10)
              /\ RatioIs(OutCell(2, "ambient_light_rolling_mean"), 15)
              /\ RatioIs(OutCell(3, "ambient_light_rolling_mean"), 20)
              /\ RatioIs(OutCell(4, "ambient_light_rolling_mean"), 30)

\* the rolling step of an engineer with window 3 on 10, 20, 30, 40
C17_Witness ==
    /\ stPc = "rolling"
    /\ stWindow = 3
    /\ Series("ambient_light") = <<10, 20, 30, 40>>

\* C18: no rolling mean, std, min or max is null on any row of a column
\* without nulls; the rolling std of the first row is 0.
C18_RollingNeverNull ==
    stPc = "rolling" =>
        \A c \in 1..Len(numeric_cols) : \A i \in 1..NRows(stSeries) :
            /\ \A stat \in {"_rolling_mean", "_rolling_std", "_rolling_min", "_rolling_max"} :
                  ~IsNull(OutCell(i, numeric_cols[c] \o stat))
            /\ i = 1 => Get(OutCell(i, numeric_cols[c] \o "_rolling_std")).var_num = 0

\* C19: for k in 1, 3, 6 the lag-k column of ambient light, active-light
\* count and faulty-light count holds at a row the column's value k rows
\* earlier, and null on the first k rows; lag-1 of 10, 20, 30, 40 is
\* null, 10, 20, 30.
C19_LagIsShift ==
    stPc = "lag" =>
        /\ \A c \in 1..Len(numeric_cols) : \A k \in {1, 3, 6} :
              \A i \in 1..NRows(stSeries) :
                 OutCell(i, numeric_cols[c] \o "_lag_" \o ToString(k)) =
                    IF i > k THEN Val(Series(numeric_cols[c])[i - k]) ELSE Null
        /\ Series("ambient_light") = <<10, 20, 30, 40>> =>
              [i \in 1..4 |-> OutCell(i, "ambient_light_lag_1")] =
                 <<Null, Val(10), Val(20), Val(30)>>

\* the lag step on a frame long enough for every lag to have a value
C19_Witness ==
    /\ stPc = "lag"
    /\ NRows(stSeries) = MaxSeries
    /\ SubSeq(Series("ambient_light"), 1, 4) = <<10, 20, 30, 40>>
    /\ ~IsNull(OutCell(MaxSeries, "ambient_light_lag_6"))

\* the faulty-light count at row i is there and positive
FaultAt(i) == i <= NRows(stSeries) /\ Series("faulty_lights_count")[i] > 0

\* C20: with label kind 'failure' the label of a row is 1 iff the
\* faulty-light count 3 rows or 6 rows later exists and is positive, and 0
\* otherwise: an offset past the end counts as no failure, and no label is
\* null.
C20_FailureLabel ==
    stPc = "target" =>
        \A i \in 1..NRows(stSeries) :
            OutCell(i, "target_failure") =
               IF FaultAt(i + 3) \/ FaultAt(i + 6) THEN Val(1) ELSE Val(0)

\* the label step on faulty-light counts 0, 0, 0, 1, 0, 0, 0
C20_Witness ==
    /\ stPc = "target"
    /\ Series("faulty_lights_count") = <<0, 0, 0, 1, 0, 0, 0>>
    /\ OutCell(1, "target_failure") = Val(1)
    /\ OutCell(2, "target_failure") = Val(0)

\* n times the deviation of x from the mean of the n values of w
Deviation(x, w) == Len(w) * x - SumSeq(w)

\* (x - mean)^2 > 4 * variance, the variance being the sum of the squared
\* deviations over n - 1; both sides times n^2 * (n - 1)
BeyondTwoSigma(x, w) ==
    /\ Len(w) > 1
    /\ Deviation(x, w) * Deviation(x, w) * (Len(w) - 1) >
          4 * SumSeq([k \in 1..Len(w) |-> Deviation(w[k], w) * Deviation(w[k], w)])

\* C21: with label kind 'anomaly' the label of a row is 1 iff its ambient
\* light is further from the mean of the whole frame than 2 standard
\* deviations of the frame, else 0; when all values are equal every label
\* is 0.
C21_AnomalyLabel ==
    stPc = "anomaly" =>
        \A w \in {Series("ambient_light")} :
            /\ \A i \in 1..Len(w) :
                  OutCell(i, "target_anomaly") =
                     IF BeyondTwoSigma(w[i], w) THEN Val(1) ELSE Val(0)
            /\ (\A i \in 1..Len(w) : w[i] = w[1]) =>
                  \A i \in 1..Len(w) : OutCell(i, "target_anomaly") = Val(0)

\* the label step on six equal values and one far from them
C21_Witness ==
    /\ stPc = "anomaly"
    /\ Series("ambient_light") = <<5, 5, 5, 5, 5, 5, 70>>
    /\ OutCell(7, "target_anomaly") = Val(1)
    /\ OutCell(1, "target_anomaly") = Val(0)

-----------------------------------------------------------------------------
(* Properties of the light features *)

\* the lights of the frame whose column of the given field is 1 in row i
LightsWith(i, field) ==
    {k \in LightsOf(liIn) : liIn.rows[i][LightName(k, field)] = Val(1)}

\* the cells of row i of the result are the count n and the rate n / den
CountAndRate(i, total, rate, n, den) ==
    /\ Get(liOut).rows[i][total] = Val(n)
    /\ Get(liOut).rows[i][rate] = Val([num |-> n, den |-> den])
    /\ 0 <= n
    /\ n <= den

\* C26: on every row total_faults is the number of faulted lights among the
\* light fault columns the frame has and fault_rate is total_faults over the
\* number of those columns, so between 0 and 1; total_active and active_rate
\* are the same over the light state columns.
C26_LightRates ==
    (liPc = "called" /\ LightsOf(liIn) # {}) =>
        /\ NRows(Get(liOut)) = NRows(liIn)
        /\ \A i \in 1..NRows(liIn) :
              /\ CountAndRate(i, "total_faults", "fault_rate",
                              Cardinality(LightsWith(i, "fault")),
                              Cardinality(LightsOf(liIn)))
              /\ CountAndRate(i, "total_active", "active_rate",
                              Cardinality(LightsWith(i, "state")),
                              Cardinality(LightsOf(liIn)))

\* a frame with the columns of three of the lights, two of them faulted and
\* the third without values in some row
C26_Witness ==
    /\ liPc = "called"
    /\ LightsOf(liIn) = {2, 3, NumLights}
    /\ \E i \in 1..NRows(liIn) :
          /\ IsNull(liIn.rows[i][LightName(NumLights, "fault")])
          /\ Get(liOut).rows[i]["fault_rate"] = Val([num |-> 2, den |-> 3])
          /\ Get(liOut).rows[i]["active_rate"] = Val([num |-> 0, den |-> 3])
    /\ \E i \in 1..NRows(liIn) :
          Get(liOut).rows[i]["active_rate"] = Val([num |-> 3, den |-> 3])

-----------------------------------------------------------------------------
(* Properties of the sort *)

\* C22: the rows leave the sort in ascending order of timestamp, and a
\* frame already in that order, rows of equal timestamp included, keeps the
\* order of its rows.
C22_SortIdempotent ==
    soPc = "sorted" =>
        /\ \A i \in 1..(NRows(Get(soOut)) - 1) :
              TimeOf(Get(soOut), i) <= TimeOf(Get(soOut), i + 1)
        /\ Get(soOut).rows = soIn.rows

-----------------------------------------------------------------------------
(* Properties of inference *)

FailureKeys == {"prediction", "probability", "failure_probability", "timestamp"}
AnomalyKeys == {"is_anomaly", "anomaly_score", "timestamp"}

\* the call of one kind did not come back from its model with an answer
Failed(model, X, answer) ==
    IsNull(model) \/ IsNull(X) \/ answer.raises \/ ~Accepts(Get(model), Get(X))

\* C1: predict never raises and returns a mapping with exactly the keys
\* 'failure' and 'anomaly'; the entry of a kind whose model is not loaded,
\* or whose call failed anywhere, is {error: message}, and each entry is
\* what the call of its kind returns on its own, whatever became of the other.
C1_PredictNeverRaises ==
    infPc = "done" =>
        /\ IsOk(infResult)
        /\ DOMAIN Value(infResult) = {"failure", "anomaly"}
        /\ IsNull(failure_model) => Value(infResult).failure = [error |-> "Model not loaded"]
        /\ IsNull(anomaly_model) => Value(infResult).anomaly = [error |-> "Model not loaded"]
        /\ Failed(failure_model, infX.failure, infArgs.fanswer)
              <=> DOMAIN Value(infResult).failure = {"error"}
        /\ Failed(anomaly_model, infX.anomaly, infArgs.aanswer)
              <=> DOMAIN Value(infResult).anomaly = {"error"}
        /\ Value(infResult).failure =
              Value(predict_failure(infArgs.sensor_data, infArgs.historical_data,
                                    infArgs.fanswer))
        /\ Value(infResult).anomaly =
              Value(detect_anomaly(infArgs.sensor_data, infArgs.historical_data,
                                   infArgs.aanswer))

\* the failure model is absent and the anomaly entry is a valid result, and
\* the other way round
C1_Witness ==
    /\ infPc = "done"
    /\ IsOk(infResult)
    /\ \/ /\ IsNull(failure_model)
          /\ DOMAIN Value(infResult).anomaly = AnomalyKeys
       \/ /\ ~IsNull(failure_model)
          /\ infArgs.fanswer.raises
          /\ DOMAIN Value(infResult).anomaly = AnomalyKeys

\* the last row create_features computed for the call, null when it raised
\* or left no row
ComputedRow ==
    Strict(create_features(InferenceFrame(infArgs.sensor_data, infArgs.historical_data),
                           "none"),
           LAMBDA cf : IF IsOk(cf) /\ NRows(Value(cf)) > 0
                       THEN Val(Value(cf).rows[NRows(Value(cf))])
                       ELSE Null)

\* a row reindexed to a schema: the schema's columns in its order, zero for
\* a column the row lacks or holds NaN in
Reindexed(row, schema) ==
    [i \in 1..Len(schema) |->
        IF schema[i] \in DOMAIN row /\ ~IsNull(row[schema[i]])
        THEN Get(row[schema[i]]) ELSE 0]

\* C3: the computed feature row is reindexed to the stored FeatureSchema:
\* schema columns the row has are kept, schema columns it lacks are filled
\* with zero and the model is still invoked, other columns are dropped.
C3_ReindexZeroFill ==
    (infPc = "done" /\ ~IsNull(failure_model) /\ ~IsNull(failure_features)) =>
        \A row \in {ComputedRow} :
            ~IsNull(row) =>
                infX.failure = Val(<<Reindexed(Get(row), Get(failure_features))>>)

\* the matrix a model was given follows its schema: each vector is the
\* computed row's values of the schema's columns, in the schema's order
FollowsSchema(X, features, row) ==
    ~IsNull(X) =>
        /\ ~IsNull(features)
        /\ \A r \in DOMAIN Get(X) :
              /\ ~IsNull(row)
              /\ \A c \in Range(Get(features)) : c \in DOMAIN Get(row)
              /\ Len(Get(X)[r]) = Len(Get(features))
              /\ Get(X)[r] = Reindexed(Get(row), Get(features))

\* C4: whenever a model is invoked, each vector it is given has as many
\* entries as the model's stored FeatureSchema, the i-th being the value of
\* the i-th schema column of the computed row.
C4_InputFollowsSchema ==
    infPc = "done" =>
        \A row \in {ComputedRow} :
            /\ FollowsSchema(infX.failure, failure_features, row)
            /\ FollowsSchema(infX.anomaly, anomaly_features, row)

\* both models were given a vector and answered
C4_Witness ==
    /\ infPc = "done"
    /\ ~IsNull(infX.failure) /\ Len(Get(infX.failure)) = 1
    /\ ~IsNull(infX.anomaly) /\ Len(Get(infX.anomaly)) = 1
    /\ IsOk(infResult)
    /\ DOMAIN Value(infResult).failure = FailureKeys
    /\ DOMAIN Value(infResult).anomaly = AnomalyKeys

\* the frame of the last call, and the label (its place in the sorted
\* frame, from 0) of the last row create_features left of it
CallFrame == InferenceFrame(infArgs.sensor_data, infArgs.historical_data)

ScoredLabel ==
    Strict(create_features(CallFrame, "none"),
           LAMBDA cf : IF IsOk(cf) /\ NRows(Value(cf)) > 0
                       THEN Val(Value(cf).index[NRows(Value(cf))])
                       ELSE Null)

\* C12: the frame given to create_features is the current reading's row
\* after at most the last 10 historical rows, and the row whose features a
\* model is given is the current reading's row, the last of the frame.
C12_CurrentRowScored ==
    (/\ infPc = "done"
     /\ \/ ~IsNull(infX.failure) /\ Len(Get(infX.failure)) = 1
        \/ ~IsNull(infX.anomaly) /\ Len(Get(infX.anomaly)) = 1) =>
        \A frame \in {CallFrame} :
            /\ NRows(frame) <= TailRows + 1
            /\ frame.rows[NRows(frame)]["ambient_light"] =
                  infArgs.sensor_data["ambient_light"]
            /\ ScoredLabel = Val(NRows(frame) - 1)

\* the failure model is loaded with a schema of the columns the service's
\* frames have, and answered when invoked
FailureModelUsable ==
    /\ ~IsNull(failure_model)
    /\ ~IsNull(failure_features)
    /\ LightName(1, "ldr") \notin Range(Get(failure_features))
    /\ ~infArgs.fanswer.raises

\* C23: when the history is too short for the lags (fewer than 6 rows), so
\* that the pruning removes the current reading's row, predict still
\* returns a result for the current reading, its lag and diff fields taken
\* as zero, not an error and not the score of another row.
C23_ShortHistoryStillScored ==
    (/\ infPc = "done"
     /\ ~IsNull(infArgs.historical_data)
     /\ NRows(Get(infArgs.historical_data)) < lags[Len(lags)]
     /\ FailureModelUsable) =>
        /\ IsOk(infResult)
        /\ DOMAIN Value(infResult).failure = FailureKeys
        /\ ~IsNull(infX.failure)
        /\ Len(Get(infX.failure)) = 1
        /\ Get(infX.failure)[1][1] = Get(infArgs.sensor_data["ambient_light"])

\* the probability the answer of the failure model gives to class 1
ProbabilityOfFailure ==
    LET classes == Get(failure_model).classes
    IN  IF \E k \in DOMAIN classes : classes[k] = 1
        THEN infArgs.fanswer.proba[CHOOSE k \in DOMAIN classes : classes[k] = 1]
        ELSE 0

-----------------------------------------------------------------------------
(* Properties of ingestion *)

\* the steps of a request that belong to the inference path
InferenceSteps ==
    {"ml_init", "ml_init_failed", "history", "history_failed", "predict",
     "stored", "store_failed", "rollback_failed"}

EnteredInference == \E i \in DOMAIN ingPath : ingPath[i] \in InferenceSteps

\* C2: whatever the inference path of a request did (model missing,
\* schema mismatch, history fetch failed, store of the predictions failed
\* and was rolled back), the reading committed by the request is still in
\* the store and create_sensor_data returns it without raising.
C2_ReadingSurvivesInference ==
    (ingPc \in {"ml_init", "history", "predict", "store", "return"} \/ EnteredInference) =>
        /\ ~IsNull(ingRow)
        /\ \E i \in DOMAIN db.sensor_data : db.sensor_data[i] = Get(ingRow)
        /\ ingPc # "done" => ingRet = NoResult
        /\ ingPc = "done" => ingRet = Ok(Get(ingRow))

\* both models answered, the commit of their records failed and was rolled
\* back, and the request returned its reading
C2_Witness ==
    /\ ingPc = "done"
    /\ \E i \in DOMAIN ingPath : ingPath[i] = "store_failed"
    /\ IsOk(ingPreds)
    /\ Len(PredictionRecords(DeviceId, Value(ingPreds))) = 2
    /\ db.ml_predictions = <<>>
    /\ session = <<>>
    /\ ingRet = Ok(Get(ingRow))
    /\ \E i \in DOMAIN db.sensor_data : db.sensor_data[i] = Get(ingRow)

\* C8: when a request stands anywhere in its inference path (building the
\* service, fetching history, predicting, storing predictions), the commit
\* of its reading was its first step and the reading is in the store.
C8_CommitBeforeInference ==
    ingPc \in {"ml_init", "history", "predict", "store"} =>
        /\ ingPath[1] = "commit"
        /\ \A i \in DOMAIN ingPath : i > 1 => ingPath[i] # "commit"
        /\ ~IsNull(ingRow)
        /\ Get(ingRow) \in Range(db.sensor_data)

\* the history was fetched, and it holds the reading of the request
C8_Witness ==
    /\ ingPc = "predict"
    /\ ~IsNull(ingHist)
    /\ ~IsNull(ingRow)
    /\ Get(ingRow) \in Range(db.sensor_data)
    /\ NRows(Get(ingHist)) = Len(db.sensor_data)

\* C11: when the history fetch raised or found no row, predict is still
\* called, with no history, and with both models loaded it yields a
\* prediction, not an error, for each kind.
C11_DegradedContextPredicts ==
    (/\ \E i \in DOMAIN ingPath : ingPath[i] \in {"history", "history_failed"}
     /\ ingPc \in {"store", "return", "done"}
     /\ IsNull(ingHist)
     /\ ~IsNull(failure_model) /\ ~IsNull(failure_features)
     /\ ~IsNull(anomaly_model) /\ ~IsNull(anomaly_features)) =>
        /\ \E i \in DOMAIN ingPath : ingPath[i] = "predict"
        /\ IsOk(ingPreds)
        /\ DOMAIN Value(ingPreds).failure = FailureKeys
        /\ DOMAIN Value(ingPreds).anomaly = AnomalyKeys

\* the rows a step added to the predictions table
AddedPredictions ==
    SubSeq(db'.ml_predictions, Len(db.ml_predictions) + 1, Len(db'.ml_predictions))

AddedOfType(k) ==
    SelectSeq(AddedPredictions,
              LAMBDA r : r.prediction_type = k /\ r.device_id = DeviceId)

\* what the detector put out when its score was this one
DetectorOutput(score) ==
    (CHOOSE a \in AnomalyAnswers : ~a.raises /\ a.score = score).prediction

\* the store step of a request, its commit succeeding
StoredStep ==
    /\ ingPc = "store"
    /\ IsOk(ingPreds)
    /\ ingPath' = Append(ingPath, "stored")

\* C16: with a working store, generate_predictions adds exactly one
\* prediction record of a kind for the device when predict's entry for the
\* kind has no 'error' key and none when it has; the failure record is
\* labelled 'failure' iff the predicted class is 1, the anomaly record
\* 'anomaly' iff the detector put out -1.
C16_OneRecordPerResult ==
    [][StoredStep =>
        /\ SubSeq(db'.ml_predictions, 1, Len(db.ml_predictions)) = db.ml_predictions
        /\ \A k \in {"failure", "anomaly"} :
              Len(AddedOfType(k)) =
                 IF "error" \in DOMAIN Value(ingPreds)[k] THEN 0 ELSE 1
        /\ Len(AddedPredictions) = Len(AddedOfType("failure")) + Len(AddedOfType("anomaly"))
        /\ \A i \in DOMAIN AddedOfType("failure") :
              (AddedOfType("failure")[i].prediction_label = "failure") <=>
                 (Value(ingPreds).failure.prediction = 1)
        /\ \A i \in DOMAIN AddedOfType("anomaly") :
              (AddedOfType("anomaly")[i].prediction_label = "anomaly") <=>
                 (DetectorOutput(AddedOfType("anomaly")[i].prediction_value) = -1)
    ]_vars

\* a request whose two results were stored, one labelled 'failure' and one
\* 'anomaly'
C16_Witness ==
    /\ \E i \in DOMAIN ingPath : ingPath[i] = "stored"
    /\ Len(db.ml_predictions) = 2
    /\ db.ml_predictions[1].prediction_label = "failure"
    /\ db.ml_predictions[2].prediction_label = "anomaly"

\* the files on disk when the server process started are those of training
\* run 1 (FilesOf); a model a request holds was read from them
FromStart(model) == IsNull(model) \/ Get(model).run = 1

\* C13: the artifacts are read from disk once, when the process starts, and
\* never again: whatever happens to the files afterwards, the model that
\* scores an ingestion is the one that was on disk at the start.
C13_LoadedOnceAtStart ==
    (ingPc \in {"history", "predict", "store", "return", "done"}) =>
        FromStart(failure_model) /\ FromStart(anomaly_model)

\* a stored reading as a row of the history frame
AsHistoryRow(r) == HistoryFrame(<<r>>).rows[1]

\* C29: the history fetched during an ingestion does not return the reading
\* the ingestion has just stored, so in the context frame (the history, then
\* the current reading appended) that reading appears once: the history has
\* no more rows equal to it than other stored readings account for.
C29_CurrentReadingOnce ==
    (~IsNull(ingHist) /\ ~IsNull(ingRow)) =>
        Cardinality({i \in 1..NRows(Get(ingHist)) :
                        Get(ingHist).rows[i] = AsHistoryRow(Get(ingRow))})
            <= Cardinality({j \in DOMAIN db.sensor_data :
                               /\ db.sensor_data[j].id # Get(ingRow).id
                               /\ AsHistoryRow(db.sensor_data[j]) = AsHistoryRow(Get(ingRow))})

-----------------------------------------------------------------------------
(* Properties of the fault alerts *)

\* C28: whatever ingestions and resolutions have run, and however they were
\* interleaved, a light of a device has at most one open fault alert.
C28_OneOpenFaultPerLight ==
    \A light_id \in 1..NumLights :
        Cardinality(OpenFaults(alAlerts, DeviceId, light_id)) <= 1

-----------------------------------------------------------------------------
(* Properties of interleaved invocations *)

\* what the store held for the device when invocation c ran its query
FetchedBy(c) ==
    _get_historical_data([db EXCEPT !.sensor_data = SubSeq(@, 1, gpSeen[c])],
                         DeviceId, clock, TRUE)

\* the stored readings, as rows of a history frame
StoredRows == Range(HistoryFrame(db.sensor_data).rows)

\* C14: no state is kept between calls.  However the invocations for one
\* device interleave, the frame each one scores is built from the readings
\* its own query fetched from the store (none when the query failed) and
\* its own current reading, and from nothing another invocation holds.
C14_NoSharedState ==
    \A c \in Calls :
        gpPc[c] \in {"store", "done"} =>
            \A frame \in {Get(gpFrame[c])} :
                /\ gpHist[c] \in {Null, FetchedBy(c)}
                /\ frame = InferenceFrame(gpSensor[c], gpHist[c])
                /\ frame.rows[NRows(frame)]["faulty_lights_count"] =
                      Val(Len(CallFaults(c)))
                /\ \A i \in 1..(NRows(frame) - 1) : frame.rows[i] \in StoredRows

\* two invocations that overlapped (each ran its query after both readings
\* were committed) have both returned a prediction
C14_Witness ==
    /\ \A c \in Calls : gpPc[c] = "done" /\ IsOk(gpPreds[c])
    /\ \A c \in Calls : ~IsNull(gpHist[c]) /\ gpSeen[c] = Len(db.sensor_data)
    /\ \A c \in Calls : "error" \notin DOMAIN Value(gpPreds[c]).failure

-----------------------------------------------------------------------------
(* Properties of data collection *)

\* the rows of the table the query of the last call selects
Matching ==
    {i \in DOMAIN colTable :
        /\ Get(colTable[i]["device_id"]) = colArgs.device_id
        /\ Get(colTable[i]["timestamp"]).t >= StartDate(colArgs.start_date, ColNow)
        /\ Get(colTable[i]["timestamp"]).t <= EndDate(colArgs.end_date, ColNow)}

\* C7: collect_device_data returns an empty frame whenever its query
\* yields fewer than min_readings rows, and a frame it returns with rows
\* has all the rows of the query, at least min_readings of them.
C7_NoShortFrame ==
    colPc = "called" =>
        /\ Cardinality(Matching) < colArgs.min_readings => colOut = EmptyFrame
        /\ ~IsEmpty(colOut) =>
              /\ NRows(colOut) >= colArgs.min_readings
              /\ NRows(colOut) = Cardinality(Matching)

\* the query found rows, but fewer than asked for
C7_Witness ==
    /\ colPc = "called"
    /\ Cardinality(Matching) >= 1
    /\ Cardinality(Matching) < colArgs.min_readings
    /\ Cardinality(Matching) < Len(colTable)
    /\ colOut = EmptyFrame

\* what a light of a reading's array says in one of its five columns
LightValue(l, field) ==
    CASE field = "ldr"     -> Val(l.ldr_value)
      [] field = "ldr_raw" -> Val(l.ldr_raw)
      [] field = "ir"      -> Val(IF l.ir_sensor THEN 1 ELSE 0)
      [] field = "state"   -> Val(IF l.light_state THEN 1 ELSE 0)
      [] field = "fault"   -> Val(IF l.fault_detected THEN 1 ELSE 0)

\* the entries of a row's light array that carry the given id
EntriesOf(ld, id) ==
    IF IsNull(ld) THEN {}
    ELSE {k \in DOMAIN Get(ld).lights : Get(ld).lights[k].id = id}

\* C24: every row collect_device_data returns carries the twenty columns
\* light_{1..4}_{ldr,ldr_raw,ir,state,fault}; for an id in 1..4 present in
\* the row's light array they hold that light's values, for an id in 1..4
\* absent from it they are null, and entries with another id change nothing.
C24_FixedLightColumns ==
    colPc = "called" =>
        \A i \in 1..NRows(colOut) : \A id \in 1..NumLights : \A field \in LightFields :
            /\ HasCol(colOut, LightName(id, field))
            /\ LET ld == colOut.rows[i]["lights_data"]
               IN  IF EntriesOf(ld, id) = {}
                   THEN IsNull(colOut.rows[i][LightName(id, field)])
                   ELSE \E k \in EntriesOf(ld, id) :
                           colOut.rows[i][LightName(id, field)]
                               = LightValue(Get(ld).lights[k], field)

-----------------------------------------------------------------------------
(* Properties of training *)

Ended == trPc = "idle" /\ trRun > 0

ZeroRows(file) == IsNull(file) \/ NRows(Get(file)) = 0

\* C9: a training run of either kind on a dataset without a row ends with
\* an empty-dataset error before any feature engineering or fitting, and
\* leaves the model directory as it found it.
C9_EmptyDatasetRefused ==
    (trRun > 0 /\ ZeroRows(trData)) =>
        /\ trPc = "idle"
        /\ trSteps = <<"read">>
        /\ trRet \in {Raise("Empty dataset provided"), Raise("EmptyDataError")}
        /\ modelDir = trDirBefore

\* a run on a file with a header line only, in a directory an earlier run
\* had filled
C9_Witness ==
    /\ Ended
    /\ ~IsNull(trData)
    /\ NRows(Get(trData)) = 0
    /\ trRet = Raise("Empty dataset provided")
    /\ modelDir # EmptyDir
    /\ modelDir = trDirBefore

\* the two files of a model name are both absent, or both there and
\* written by the same run
Paired(kind) ==
    LET a == ModelName(kind) \o ".pkl"
        f == ModelName(kind) \o "_features.pkl"
    IN  \/ IsNull(modelDir[a]) /\ IsNull(modelDir[f])
        \/ /\ ~IsNull(modelDir[a])
           /\ ~IsNull(modelDir[f])
           /\ trWrittenBy[a] = trWrittenBy[f]

\* C10: after any training run, ended well or by an exception at any
\* step, each model name has both its artifact and its FeatureSchema from
\* the same run, or neither.
C10_ArtifactSchemaPaired ==
    Ended => \A kind \in {"failure", "anomaly"} : Paired(kind)

\* the run in hand has written its FeatureSchema
SchemaPersisted ==
    /\ \E i \in DOMAIN trSteps : trSteps[i] = "dump_features"
    /\ trRet # Raise("OSError")

PersistedSchema == Get(modelDir[ModelName(trKind) \o "_features.pkl"])

Identifiers == {"id", "device_id"}

Timestamps == {"timestamp", "created_at", "received_at", "time_string"}

\* C15: the FeatureSchema a training function persists is the ordered list
\* of the columns of the matrix its model was fitted on, and it holds no
\* identifier, no timestamp and no target column.
C15_SchemaIsFittedColumns ==
    SchemaPersisted =>
        /\ PersistedSchema = Get(trFit).X_columns
        /\ \A i \in DOMAIN PersistedSchema :
              /\ PersistedSchema[i] \notin Identifiers \cup Timestamps
              /\ PersistedSchema[i] \notin {"target_failure", "target_anomaly"}
              /\ ~StartsWithTarget(PersistedSchema[i])

\* a failure run on a table with identifier and timestamp columns, whose
\* engineered frame had the label column, has written its schema
C15_Witness ==
    /\ SchemaPersisted
    /\ trKind = "failure"
    /\ {"id", "device_id", "timestamp", "created_at", "target_failure"} \subseteq
          Range(Get(trFit).columns)
    /\ Len(PersistedSchema) > 0

\* the last run's engineered frame exists and has no target_failure column
NoTargetColumn ==
    /\ trRun > 0
    /\ trKind = "failure"
    /\ IsOk(load_dataset(trData))
    /\ \E r \in {create_features(Get(trData), "failure")} :
          IsOk(r) /\ ~HasCol(Value(r), "target_failure")

\* C25: a failure training whose engineered frame has no target_failure
\* column does not abort on preparing its data: it goes on to the fit.
C25_SyntheticTargetTrains ==
    NoTargetColumn => ~(trPc = "idle" /\ trSteps[Len(trSteps)] = "features")

====
